---- MODULE Spec2Model ----
(***************************************************************************)
(* A model of the parser engine of pegen (src/pegen/pegen.c): the token    *)
(* buffer filled on demand from the tokenizer, the mark cursor, the        *)
(* per-token memo chains and the primitive combinators expect_token,       *)
(* keyword_token, lookahead and is_memoized / insert_memo / update_memo.   *)
(*                                                                         *)
(* Pointers are modelled by what they denote: a Token* by the index of its *)
(* slot in p->tokens (every Token is allocated once and never moved, the   *)
(* realloc of p->tokens moves only the array of pointers), a Memo list by  *)
(* the sequence of its entries from the head, a node by a small integer    *)
(* with 0 for NULL, a char* into the tokenizer's buffer by an offset with  *)
(* 0 for NULL, a bytes object by the sequence of its characters.           *)
(***************************************************************************)
EXTENDS Integers, Sequences, FiniteSets, TLC

(***************************************************************************)
(* Bounds of the model.                                                    *)
(***************************************************************************)
\* the tokenizer is asked for at most this many tokens that get stored
MaxFill == 2
\* at most this many memo entries are allocated over all chains
MaxMemo == 2

(***************************************************************************)
(* Program constants.                                                      *)
(***************************************************************************)
NULL == 0
\* token kinds of the tokenizer (token.h)
NAME == 1
\* STRING of token.h (STRING is a word of TLA+)
STRING_TOKEN == 3
ERRORTOKEN == 59
\* the error indicator of the interpreter: the exception pending, if any, with
\* its message and the location recorded with it
NoErr == [exc |-> "none", msg |-> "", lineno |-> 0, col |-> 0]

\* run_parser's parameter keywords, indexed by name length (index + 1 here);
\* <<>> is a NULL bucket, a bucket ends with the entry of type -1
keywords ==
    << <<>>,
       <<>>,
       << [str |-> <<"i", "f">>, type |-> 500],
          [str |-> <<"i", "n">>, type |-> 501],
          [str |-> <<"i", "f">>, type |-> 502],
          [str |-> <<>>, type |-> -1] >> >>

\* run_parser's parameter n_keyword_lists: the length of the keyword table
n_keyword_lists == Len(keywords)

\* the rule ids (memo types) and the nodes the rules of the model memoize
RuleIds == {1, 2}
NodeIds == {NULL, 1}

\* what one call of PyTokenizer_Get can hand back: the kind, the bytes
\* between start and end, and the tokenizer's line fields at that moment
LexResults ==
    { [type |-> NAME, bytes |-> <<"x">>, start |-> 1, lineno |-> 1,
       first_lineno |-> 1, line_start |-> 1, multi_line_start |-> 1],
      [type |-> NAME, bytes |-> <<"i", "f">>, start |-> 3, lineno |-> 1,
       first_lineno |-> 1, line_start |-> 1, multi_line_start |-> 1],
      [type |-> ERRORTOKEN, bytes |-> <<>>, start |-> NULL, lineno |-> 1,
       first_lineno |-> 1, line_start |-> 1, multi_line_start |-> 1] }

\* the texts keyword_token is called with
KeywordTexts == { <<"x">>, <<"y">> }

\* memset(p->tokens[i], '\0', sizeof(Token))
ZeroToken ==
    [type |-> 0, bytes |-> <<>>, lineno |-> 0, col_offset |-> 0,
     end_lineno |-> 0, end_col_offset |-> 0, memo |-> <<>>]

VARIABLES
    tokens,   \* p->tokens: the slots 0 .. size-1, at index + 1
    mark,     \* p->mark
    fill,     \* p->fill
    size,     \* p->size
    err,      \* the pending Python error (PyErr_Occurred)
    pc,       \* where run_parser is: "init", "rule" (inside the start rule), "exit"
    call,     \* the last call of the library: operation, arguments, results
    hist,     \* per (position, rule): whether a memo entry was written for it
              \* (set), whether insert_memo was called for it when one had been
              \* (dup), and the (node, end) most recently written for it
    run,      \* run_parser's own state: what it allocated and freed, the result
              \* of the start rule, the value it returns
    sub,      \* the invocation of fstring_compile_expr in progress or last made:
              \* its inner parser, its buffers, the value it returned
    scan      \* the scan of an f-string body: the input, the cursor, the
              \* literal and the bracket stack

vars == <<tokens, mark, fill, size, err, pc, call, hist, run, sub, scan>>

\* the variables a parse without run_parser's bookkeeping and without
\* f-strings never touches
others == <<run, sub, scan>>

NotStarted == [pc |-> "none"]

OthersIdle ==
    /\ run = NotStarted
    /\ sub = NotStarted
    /\ scan = NotStarted

(***************************************************************************)
(* The parser struct and the error indicator as one value, so that the     *)
(* functions of pegen.c are operators from one such value to the next.     *)
(***************************************************************************)
World == [tokens |-> tokens, mark |-> mark, fill |-> fill, size |-> size, err |-> err]

NullRet == [k |-> "null", v |-> 0]
TokRet(i) == [k |-> "tok", v |-> i]
IntRet(n) == [k |-> "int", v |-> n]
NodeRet(n) == IF n = NULL THEN NullRet ELSE [k |-> "node", v |-> n]

\* the outcome of a call: the parser after it, the value returned, the value
\* left in the out parameter, the calls made to the tokenizer, and the reads
\* p->tokens[i] made, each with p->fill at that moment
Res(w, ret, out, lex, rd) == [w |-> w, ret |-> ret, out |-> out, lex |-> lex, rd |-> rd]

\* p->tokens[i]; outside the allocated slots the read is out of bounds and
\* may yield anything, here a token of a kind no call expects
TokenAt(w, i) ==
    IF i >= 0 /\ i < w.size THEN w.tokens[i + 1] ELSE [ZeroToken EXCEPT !.type = -1]

\* strncmp(k->str, name, name_len) == 0, k->str NUL-terminated, name not
StrncmpEq(kstr, name, n) ==
    /\ Len(kstr) >= n
    /\ \A i \in 1..n : kstr[i] = name[i]

\* the loop as it would be if it looked at the first entry of the bucket only
KeywordScan_first_entry_only(bucket, k, name, name_len) ==
    IF bucket[k].type # -1 /\ StrncmpEq(bucket[k].str, name, name_len)
    THEN bucket[k].type
    ELSE NAME

RECURSIVE KeywordScan(_, _, _, _)
KeywordScan(bucket, k, name, name_len) ==
    IF bucket[k].type = -1 THEN NAME
    ELSE IF StrncmpEq(bucket[k].str, name, name_len) THEN bucket[k].type
    ELSE KeywordScan(bucket, k + 1, name, name_len)

get_keyword_or_name_type(name, name_len) ==
    IF name_len >= n_keyword_lists \/ keywords[name_len + 1] = <<>>
    THEN NAME
    ELSE KeywordScan(keywords[name_len + 1], 1, name, name_len)

\* PyErr_Format(PyExc_SyntaxError, "Tokenizer returned error token") and
\* PyErr_SyntaxLocationObject(p->tok->filename, p->tok->lineno, 0)
TokenizerError(lx) ==
    [exc |-> "SyntaxError", msg |-> "Tokenizer returned error token",
     lineno |-> lx.lineno, col |-> 0]

\* fill_token as it would be with the buffer grown by one slot, not doubled
fill_token_grow_by_one(w, lx) ==
    IF lx.type = ERRORTOKEN
    THEN [w |-> [w EXCEPT !.err = IF @ = NoErr THEN TokenizerError(lx) ELSE @], rc |-> -1]
    ELSE LET g == IF w.fill = w.size
                  THEN [w EXCEPT !.tokens = Append(@, ZeroToken), !.size = w.size + 1]
                  ELSE w
         IN  [w |-> [g EXCEPT !.tokens[w.fill + 1].type = lx.type,
                              !.tokens[w.fill + 1].bytes = lx.bytes,
                              !.fill = w.fill + 1],
              rc |-> 0]

\* fill_token as it would be if growing allocated every slot anew: the tokens
\* stored so far are copied without their memo chains
fill_token_drop_memo(w, lx) ==
    IF lx.type = ERRORTOKEN
    THEN [w |-> [w EXCEPT !.err = IF @ = NoErr THEN TokenizerError(lx) ELSE @], rc |-> -1]
    ELSE LET g == IF w.fill = w.size
                  THEN [w EXCEPT !.tokens =
                                     [i \in 1..w.size |-> [@[i] EXCEPT !.memo = <<>>]]
                                     \o [i \in 1..w.size |-> ZeroToken],
                                 !.size = 2 * w.size]
                  ELSE w
         IN  [w |-> [g EXCEPT !.tokens[w.fill + 1].type = lx.type,
                              !.tokens[w.fill + 1].bytes = lx.bytes,
                              !.fill = w.fill + 1],
              rc |-> 0]

\* fill_token as it would be without the test !PyErr_Occurred()
fill_token_overwrite_error(w, lx) ==
    IF lx.type = ERRORTOKEN
    THEN [w |-> [w EXCEPT !.err = TokenizerError(lx)], rc |-> -1]
    ELSE LET g == IF w.fill = w.size
                  THEN [w EXCEPT !.tokens = @ \o [i \in 1..w.size |-> ZeroToken],
                                 !.size = 2 * w.size]
                  ELSE w
             i == w.fill + 1
             len == Len(lx.bytes)
             end == IF lx.start = NULL THEN NULL ELSE lx.start + len
             ty == IF lx.type = NAME
                   THEN get_keyword_or_name_type(lx.bytes, len)
                   ELSE lx.type
             lstart == IF lx.type = STRING_TOKEN THEN lx.multi_line_start ELSE lx.line_start
         IN  [w |-> [g EXCEPT
                      !.tokens[i] =
                          [type |-> ty,
                           bytes |-> lx.bytes,
                           lineno |->
                               IF lx.type = STRING_TOKEN THEN lx.first_lineno ELSE lx.lineno,
                           col_offset |->
                               IF lx.start # NULL /\ lx.start >= lstart
                               THEN lx.start - lstart ELSE -1,
                           end_lineno |-> lx.lineno,
                           end_col_offset |->
                               IF end # NULL /\ end >= lx.line_start
                               THEN end - lx.line_start ELSE -1,
                           memo |-> @.memo],
                      !.fill = w.fill + 1],
              rc |-> 0]

\* fill_token with the answer lx of the tokenizer; rc is the value returned.
\* The allocations of the collaborators (PyMem_Realloc, PyMem_Malloc,
\* PyBytes_FromStringAndSize) are taken to succeed.
fill_token(w, lx) ==
    IF lx.type = ERRORTOKEN
    THEN [w |-> [w EXCEPT !.err = IF @ = NoErr THEN TokenizerError(lx) ELSE @], rc |-> -1]
    ELSE LET g == IF w.fill = w.size
                  THEN [w EXCEPT !.tokens = @ \o [i \in 1..w.size |-> ZeroToken],
                                 !.size = 2 * w.size]
                  ELSE w
             i == w.fill + 1
             len == Len(lx.bytes)
             end == IF lx.start = NULL THEN NULL ELSE lx.start + len
             ty == IF lx.type = NAME
                   THEN get_keyword_or_name_type(lx.bytes, len)
                   ELSE lx.type
             lstart == IF lx.type = STRING_TOKEN THEN lx.multi_line_start ELSE lx.line_start
         IN  [w |-> [g EXCEPT
                      !.tokens[i] =
                          [type |-> ty,
                           bytes |-> lx.bytes,
                           lineno |->
                               IF lx.type = STRING_TOKEN THEN lx.first_lineno ELSE lx.lineno,
                           col_offset |->
                               IF lx.start # NULL /\ lx.start >= lstart
                               THEN lx.start - lstart ELSE -1,
                           end_lineno |-> lx.lineno,
                           end_col_offset |->
                               IF end # NULL /\ end >= lx.line_start
                               THEN end - lx.line_start ELSE -1,
                           memo |-> @.memo],
                      !.fill = w.fill + 1],
              rc |-> 0]

\* the loop over a memo chain: the index of the first entry of the type, 0 if none
RECURSIVE MemoScan(_, _, _)
MemoScan(chain, k, type) ==
    IF k > Len(chain) THEN 0
    ELSE IF chain[k].type = type THEN k
    ELSE MemoScan(chain, k + 1, type)

\* insert_memo as it would be if it linked the entry at the tail of the chain
insert_memo_at_tail(w, at, type, node, alloc_ok) ==
    IF ~alloc_ok
    THEN Res(w, IntRet(-1), NULL, 0, <<>>)
    ELSE Res([w EXCEPT !.tokens[at + 1].memo =
                  Append(@, [type |-> type, node |-> node, mark |-> w.mark])],
             IntRet(0), NULL, 0, <<[idx |-> at, fill |-> w.fill]>>)

\* alloc_ok: whether PyArena_Malloc returns a Memo
insert_memo(w, at, type, node, alloc_ok) ==
    IF ~alloc_ok
    THEN Res(w, IntRet(-1), NULL, 0, <<>>)
    ELSE Res([w EXCEPT !.tokens[at + 1].memo =
                  <<[type |-> type, node |-> node, mark |-> w.mark]>> \o @],
             IntRet(0), NULL, 0, <<[idx |-> at, fill |-> w.fill]>>)

\* update_memo as it would be without its search loop
update_memo_always_insert(w, at, type, node, alloc_ok) ==
    insert_memo(w, at, type, node, alloc_ok)

\* update_memo as it would be if it left the end position of the entry alone
update_memo_keep_mark(w, at, type, node, alloc_ok) ==
    LET m == MemoScan(w.tokens[at + 1].memo, 1, type)
    IN  IF m # 0
        THEN Res([w EXCEPT !.tokens[at + 1].memo[m].node = node],
                 IntRet(0), NULL, 0, <<[idx |-> at, fill |-> w.fill]>>)
        ELSE insert_memo(w, at, type, node, alloc_ok)

update_memo(w, at, type, node, alloc_ok) ==
    LET m == MemoScan(w.tokens[at + 1].memo, 1, type)
    IN  IF m # 0
        THEN Res([w EXCEPT !.tokens[at + 1].memo[m].node = node,
                           !.tokens[at + 1].memo[m].mark = w.mark],
                 IntRet(0), NULL, 0, <<[idx |-> at, fill |-> w.fill]>>)
        ELSE insert_memo(w, at, type, node, alloc_ok)

\* is_memoized as it would be if a hit did not move the mark
is_memoized_keep_mark(w, type, pres, lx) ==
    LET filling == (w.mark = w.fill)
        f == IF filling THEN fill_token(w, lx) ELSE [w |-> w, rc |-> 0]
        lex == IF filling THEN 1 ELSE 0
    IN  IF f.rc < 0
        THEN Res(f.w, IntRet(-1), pres, lex, <<>>)
        ELSE LET t == TokenAt(f.w, f.w.mark)
                 rd == <<[idx |-> f.w.mark, fill |-> f.w.fill]>>
                 m == MemoScan(t.memo, 1, type)
             IN  IF m # 0
                 THEN Res(f.w, IntRet(1), t.memo[m].node, lex, rd)
                 ELSE Res(f.w, IntRet(0), pres, lex, rd)

is_memoized(w, type, pres, lx) ==
    LET filling == (w.mark = w.fill)
        f == IF filling THEN fill_token(w, lx) ELSE [w |-> w, rc |-> 0]
        lex == IF filling THEN 1 ELSE 0
    IN  IF f.rc < 0
        THEN Res(f.w, IntRet(-1), pres, lex, <<>>)
        ELSE LET t == TokenAt(f.w, f.w.mark)
                 rd == <<[idx |-> f.w.mark, fill |-> f.w.fill]>>
                 m == MemoScan(t.memo, 1, type)
             IN  IF m # 0
                 THEN Res([f.w EXCEPT !.mark = t.memo[m].mark], IntRet(1),
                          t.memo[m].node, lex, rd)
                 ELSE Res(f.w, IntRet(0), pres, lex, rd)

\* expect_token as it would be if it advanced whatever the kind of the token
expect_token_always_advance(w, type, lx) ==
    LET filling == (w.mark = w.fill)
        f == IF filling THEN fill_token(w, lx) ELSE [w |-> w, rc |-> 0]
        lex == IF filling THEN 1 ELSE 0
    IN  IF f.rc < 0
        THEN Res(f.w, NullRet, NULL, lex, <<>>)
        ELSE LET t == TokenAt(f.w, f.w.mark)
                 rd == <<[idx |-> f.w.mark, fill |-> f.w.fill]>>
             IN  IF t.type # type
                 THEN Res([f.w EXCEPT !.mark = @ + 1], NullRet, NULL, lex, rd)
                 ELSE Res([f.w EXCEPT !.mark = @ + 1], TokRet(f.w.mark), NULL, lex, rd)

\* expect_token as it would be without the fill at mark == fill
expect_token_no_fill(w, type, lx) ==
    LET t == TokenAt(w, w.mark)
        rd == <<[idx |-> w.mark, fill |-> w.fill]>>
    IN  IF t.type # type
        THEN Res(w, NullRet, NULL, 0, rd)
        ELSE Res([w EXCEPT !.mark = @ + 1], TokRet(w.mark), NULL, 0, rd)

expect_token(w, type, lx) ==
    LET filling == (w.mark = w.fill)
        f == IF filling THEN fill_token(w, lx) ELSE [w |-> w, rc |-> 0]
        lex == IF filling THEN 1 ELSE 0
    IN  IF f.rc < 0
        THEN Res(f.w, NullRet, NULL, lex, <<>>)
        ELSE LET t == TokenAt(f.w, f.w.mark)
                 rd == <<[idx |-> f.w.mark, fill |-> f.w.fill]>>
             IN  IF t.type # type
                 THEN Res(f.w, NullRet, NULL, lex, rd)
                 ELSE Res([f.w EXCEPT !.mark = @ + 1], TokRet(f.w.mark), NULL, lex, rd)

\* keyword_token as it would be without p->mark = mark on a mismatch
keyword_token_no_rewind(w, val, lx) ==
    LET r == expect_token(w, NAME, lx)
    IN  IF r.ret = NullRet
        THEN r
        ELSE IF val = TokenAt(r.w, r.ret.v).bytes
             THEN r
             ELSE Res(r.w, NullRet, NULL, r.lex, r.rd)

keyword_token(w, val, lx) ==
    LET r == expect_token(w, NAME, lx)
    IN  IF r.ret = NullRet
        THEN r
        ELSE IF val = TokenAt(r.w, r.ret.v).bytes
             THEN r
             ELSE Res([r.w EXCEPT !.mark = w.mark], NullRet, NULL, r.lex, r.rd)

\* name_token: the NAME token, then the identifier and the Name node, whose
\* making succeeds (obj_ok) or leaves NULL with the token consumed
name_token(w, lx, obj_ok) ==
    LET r == expect_token(w, NAME, lx)
    IN  IF r.ret = NullRet
        THEN r
        ELSE IF ~obj_ok
             THEN Res(r.w, NullRet, NULL, r.lex, r.rd)
             ELSE Res(r.w, NodeRet(1), NULL, r.lex, r.rd)

\* the head of a generated rule function of rule id type:
\*   if (is_memoized(p, type, &res)) return res;
\* after which, here, no alternative matches
memoized_rule(w, type, lx) ==
    LET r == is_memoized(w, type, NULL, lx)
    IN  IF r.ret.v # 0
        THEN Res(r.w, NodeRet(r.out), NULL, r.lex, r.rd)
        ELSE Res(r.w, NullRet, NULL, r.lex, r.rd)

\* the functions passed to lookahead: void *(func)(Parser *)
RuleFuncs ==
    { [f |-> "name_token", type |-> 0] }
    \cup { [f |-> "memoized_rule", type |-> r] : r \in RuleIds }

CallFunc(func, w, lx, ok) ==
    CASE func.f = "name_token" -> name_token(w, lx, ok)
      [] OTHER -> memoized_rule(w, func.type, lx)

\* the int value of a C comparison
BoolInt(b) == IF b THEN 1 ELSE 0

\* lookahead as it would be without p->mark = mark
lookahead_no_restore(positive, func, w, lx, ok) ==
    LET r == CallFunc(func, w, lx, ok)
    IN  Res(r.w, IntRet(BoolInt(BoolInt(r.ret # NullRet) = positive)), NULL, r.lex, r.rd)

lookahead(positive, func, w, lx, ok) ==
    LET r == CallFunc(func, w, lx, ok)
    IN  Res([r.w EXCEPT !.mark = w.mark],
            IntRet(BoolInt(BoolInt(r.ret # NullRet) = positive)), NULL, r.lex, r.rd)

\* func is keyword_token
lookahead_with_string(positive, w, arg, lx) ==
    LET r == keyword_token(w, arg, lx)
    IN  Res([r.w EXCEPT !.mark = w.mark],
            IntRet(BoolInt(BoolInt(r.ret # NullRet) = positive)), NULL, r.lex, r.rd)

\* func is expect_token
lookahead_with_int(positive, w, arg, lx) ==
    LET r == expect_token(w, arg, lx)
    IN  Res([r.w EXCEPT !.mark = w.mark],
            IntRet(BoolInt(BoolInt(r.ret # NullRet) = positive)), NULL, r.lex, r.rd)

(***************************************************************************)
(* The state machine.                                                      *)
(***************************************************************************)
NoCall == [op |-> "none", a |-> <<>>, ret |-> NullRet, out |-> NULL, lex |-> 0]

Positions == 0..(MaxFill - 1)

NoWrite == [set |-> FALSE, dup |-> FALSE, node |-> NULL, end |-> 0]

\* run_parser up to p->arena = PyArena_New()
Init ==
    /\ tokens = <<ZeroToken>>
    /\ mark = 0
    /\ fill = 0
    /\ size = 1
    /\ err = NoErr
    /\ pc = "init"
    /\ call = NoCall
    /\ hist = [x \in Positions \X RuleIds |-> NoWrite]
    /\ OthersIdle

\* the parser becomes r.w and the call is recorded
Becomes(r, op, a) ==
    /\ tokens' = r.w.tokens
    /\ mark' = r.w.mark
    /\ fill' = r.w.fill
    /\ size' = r.w.size
    /\ err' = r.w.err
    /\ call' = [op |-> op, a |-> a, ret |-> r.ret, out |-> r.out, lex |-> r.lex]

\* a call that may ask the tokenizer for a token stays within the bound
MayFill == mark = fill => fill < MaxFill

\* the answers the tokenizer can give to a call made with the parser w: it is
\* asked only when mark = fill, and otherwise its answer is never looked at
LexFor(w) ==
    IF w.mark = w.fill THEN LexResults ELSE {l \in LexResults : l.type = ERRORTOKEN}

Lex == LexFor(World)

RECURSIVE MemoSum(_, _)
MemoSum(toks, i) == IF i > Len(toks) THEN 0 ELSE Len(toks[i].memo) + MemoSum(toks, i + 1)

MemoCount == MemoSum(tokens, 1)

\* the kinds and texts the rules of the model ask for
ExpectKinds == {NAME, 500}

\* run_parser: the first fill_token, then PyErr_Clear and the start rule
RunParserFill ==
    /\ pc = "init"
    /\ \E lx \in LexResults :
          LET f == fill_token(World, lx)
          IN  /\ Becomes(Res(IF f.rc < 0 THEN f.w ELSE [f.w EXCEPT !.err = NoErr],
                             IntRet(f.rc), NULL, 1, <<>>),
                         "fill_token", <<>>)
              /\ pc' = IF f.rc < 0 THEN "exit" ELSE "rule"
    /\ UNCHANGED hist
    /\ UNCHANGED others

ExpectToken ==
    /\ pc = "rule"
    /\ MayFill
    /\ \E type \in ExpectKinds, lx \in Lex :
          Becomes(expect_token(World, type, lx), "expect_token", <<>>)
    /\ UNCHANGED <<pc, hist>>
    /\ UNCHANGED others

KeywordToken ==
    /\ pc = "rule"
    /\ MayFill
    /\ \E val \in KeywordTexts, lx \in Lex :
          Becomes(keyword_token(World, val, lx), "keyword_token", <<>>)
    /\ UNCHANGED <<pc, hist>>
    /\ UNCHANGED others

Lookahead ==
    /\ pc = "rule"
    /\ MayFill
    /\ \E positive \in {0, 1}, func \in RuleFuncs, lx \in Lex :
          \E ok \in IF func.f = "name_token" THEN BOOLEAN ELSE {TRUE} :
             Becomes(lookahead(positive, func, World, lx, ok), "lookahead",
                     <<positive, func>>)
    /\ UNCHANGED <<pc, hist>>
    /\ UNCHANGED others

LookaheadWithString ==
    /\ pc = "rule"
    /\ MayFill
    /\ \E positive \in {0, 1}, arg \in KeywordTexts, lx \in Lex :
          Becomes(lookahead_with_string(positive, World, arg, lx),
                  "lookahead_with_string", <<>>)
    /\ UNCHANGED <<pc, hist>>
    /\ UNCHANGED others

LookaheadWithInt ==
    /\ pc = "rule"
    /\ MayFill
    /\ \E positive \in {0, 1}, arg \in ExpectKinds, lx \in Lex :
          Becomes(lookahead_with_int(positive, World, arg, lx),
                  "lookahead_with_int", <<>>)
    /\ UNCHANGED <<pc, hist>>
    /\ UNCHANGED others

IsMemoized ==
    /\ pc = "rule"
    /\ MayFill
    /\ \E type \in RuleIds, pres \in NodeIds, lx \in Lex :
          Becomes(is_memoized(World, type, pres, lx), "is_memoized", <<mark, type>>)
    /\ UNCHANGED <<pc, hist>>
    /\ UNCHANGED others

\* what a rule memoizes: at the position at which it started, whose token
\* is_memoized has materialized, a node that ends at p->mark ("mark is the
\* start of the node, while p->mark is the end. If node==NULL, they should be
\* the same.")
MemoArgs(w) ==
    {a \in (0..(w.fill - 1)) \X RuleIds \X NodeIds :
        /\ a[1] <= w.mark
        /\ a[3] = NULL => a[1] = w.mark}

InsertMemo ==
    /\ pc = "rule"
    /\ MemoCount < MaxMemo
    /\ \E a \in MemoArgs(World), ok \in BOOLEAN :
          LET at == a[1]
              type == a[2]
              node == a[3]
              r == insert_memo(World, at, type, node, ok)
          IN  /\ Becomes(r, "insert_memo", a)
              /\ hist' = IF r.ret.v = 0
                         THEN [hist EXCEPT ![<<at, type>>] =
                                  [set |-> TRUE, dup |-> @.dup \/ @.set,
                                   node |-> node, end |-> mark]]
                         ELSE hist
    /\ UNCHANGED pc
    /\ UNCHANGED others

UpdateMemo ==
    /\ pc = "rule"
    /\ \E a \in MemoArgs(World) :
       \E ok \in IF MemoScan(tokens[a[1] + 1].memo, 1, a[2]) # 0 THEN {TRUE} ELSE BOOLEAN :
          LET at == a[1]
              type == a[2]
              node == a[3]
              r == update_memo(World, at, type, node, ok)
          IN  /\ MemoSum(r.w.tokens, 1) <= MaxMemo
              /\ Becomes(r, "update_memo", a)
              /\ hist' = IF r.ret.v = 0
                         THEN [hist EXCEPT ![<<at, type>>] =
                                  [set |-> TRUE, dup |-> @.dup,
                                   node |-> node, end |-> mark]]
                         ELSE hist
    /\ UNCHANGED pc
    /\ UNCHANGED others

\* a rule whose alternative failed restores the mark it saved: p->mark = mark
Rewind ==
    /\ pc = "rule"
    /\ \E m \in 0..(mark - 1) :
          /\ mark' = m
          /\ call' = [NoCall EXCEPT !.op = "rewind"]
    /\ UNCHANGED <<tokens, fill, size, err, pc, hist>>
    /\ UNCHANGED others

Next ==
    \/ RunParserFill
    \/ ExpectToken
    \/ KeywordToken
    \/ Lookahead
    \/ LookaheadWithString
    \/ LookaheadWithInt
    \/ IsMemoized
    \/ InsertMemo
    \/ UpdateMemo
    \/ Rewind

Spec == Init /\ [][Next]_vars

(***************************************************************************)
(* fill_token on its own: a fresh parser, possibly with an error pending   *)
(* from before, is filled token by token from a tokenizer that can answer  *)
(* with names of every length, keywords, other kinds and error tokens.     *)
(***************************************************************************)
\* at most this many calls of fill_token store a token
MaxFillTokens == 3

NUMBER == 2

FillLexResults ==
    LexResults \cup
    { [type |-> NAME, bytes |-> <<"i", "n">>, start |-> 1, lineno |-> 1,
       first_lineno |-> 1, line_start |-> 1, multi_line_start |-> 1],
      [type |-> NAME, bytes |-> <<"i", "s">>, start |-> 1, lineno |-> 1,
       first_lineno |-> 1, line_start |-> 1, multi_line_start |-> 1],
      [type |-> NAME, bytes |-> <<"f", "o", "r">>, start |-> 2, lineno |-> 2,
       first_lineno |-> 2, line_start |-> 1, multi_line_start |-> 1],
      [type |-> NUMBER, bytes |-> <<"i", "f">>, start |-> 1, lineno |-> 1,
       first_lineno |-> 1, line_start |-> 1, multi_line_start |-> 1],
      [type |-> STRING_TOKEN, bytes |-> <<"i", "n">>, start |-> 2, lineno |-> 2,
       first_lineno |-> 1, line_start |-> 4, multi_line_start |-> 1],
      [type |-> ERRORTOKEN, bytes |-> <<>>, start |-> NULL, lineno |-> 2,
       first_lineno |-> 1, line_start |-> 1, multi_line_start |-> 1] }

\* an error raised before the call and not cleared
MemoryError == [exc |-> "MemoryError", msg |-> "", lineno |-> 0, col |-> 0]

InitFill ==
    /\ tokens = <<ZeroToken>>
    /\ mark = 0
    /\ fill = 0
    /\ size = 1
    /\ err \in {NoErr, MemoryError}
    /\ pc = "fill"
    /\ call = NoCall
    /\ hist = [x \in Positions \X RuleIds |-> NoWrite]
    /\ OthersIdle

FillToken ==
    /\ pc = "fill"
    /\ fill < MaxFillTokens
    /\ \E lx \in FillLexResults :
          LET f == fill_token(World, lx)
          IN  Becomes(Res(f.w, IntRet(f.rc), NULL, 1, <<>>), "fill_token", <<lx>>)
    /\ UNCHANGED <<pc, hist>>
    /\ UNCHANGED others

\* PyErr_Clear
ErrClear ==
    /\ pc = "fill"
    /\ err # NoErr
    /\ err' = NoErr
    /\ call' = [NoCall EXCEPT !.op = "PyErr_Clear"]
    /\ UNCHANGED <<tokens, mark, fill, size, pc, hist>>
    /\ UNCHANGED others

NextFill ==
    \/ FillToken
    \/ ErrClear

SpecFill == InitFill /\ [][NextFill]_vars

(***************************************************************************)
(* Errors raised at a token, and the decoding of the text of a literal.    *)
(***************************************************************************)
\* the text of a source line as PyErr_ProgramTextObject hands it back: one
\* entry per character, its length in bytes of UTF-8
ProgramText(lineno) == <<2, 1, 1, 1>>

\* PyUnicode_DecodeUTF8(str, nbytes) on the line from its k-th character: the
\* number of characters in the first nbytes bytes, -1 when they end inside a
\* character or beyond the line
RECURSIVE DecodeUTF8Prefix(_, _, _)
DecodeUTF8Prefix(line, k, nbytes) ==
    IF nbytes = 0 THEN 0
    ELSE IF nbytes < 0 \/ k > Len(line) \/ line[k] > nbytes THEN -1
    ELSE LET r == DecodeUTF8Prefix(line, k + 1, nbytes - line[k])
         IN  IF r < 0 THEN -1 ELSE r + 1

byte_offset_to_character_offset(line, col_offset) ==
    LET n == DecodeUTF8Prefix(line, 1, col_offset)
    IN  IF n < 0 THEN 0 ELSE n

\* raise_syntax_error as it would be if it took the token at the mark
raise_syntax_error_at_mark(w, errmsg, ok) ==
    LET t == TokenAt(w, w.mark)
        col_number == byte_offset_to_character_offset(ProgramText(t.lineno), t.col_offset) + 1
    IN  IF ok
        THEN [w |-> [w EXCEPT !.err = [exc |-> "SyntaxError", msg |-> errmsg,
                                       lineno |-> t.lineno, col |-> col_number]],
              rc |-> 0]
        ELSE [w |-> [w EXCEPT !.err = MemoryError], rc |-> -1]

\* raise_syntax_error(p, errmsg); ok: the objects it builds (the message, the
\* location tuple) can be allocated, else it returns -1 with the MemoryError
\* of the failed allocation pending
raise_syntax_error(w, errmsg, ok) ==
    LET t == TokenAt(w, w.fill - 1)
        col_number == byte_offset_to_character_offset(ProgramText(t.lineno), t.col_offset) + 1
    IN  IF ok
        THEN [w |-> [w EXCEPT !.err = [exc |-> "SyntaxError", msg |-> errmsg,
                                       lineno |-> t.lineno, col |-> col_number]],
              rc |-> 0]
        ELSE [w |-> [w EXCEPT !.err = MemoryError], rc |-> -1]

\* The bytes of a text are modelled one entry per character: an ASCII
\* character by itself, a character outside ASCII (bytes with the bit 0x80)
\* by the name of its code point.
NonAscii == {"U+E9"}

\* sprintf(p, "\\U%08x", chr): the eight hexadecimal digits, as one entry
Hex8(c) == IF c = "U+E9" THEN "000000e9" ELSE "00000000"

\* the code point eight hexadecimal digits denote
FromHex8(h) == IF h = "000000e9" THEN "U+E9" ELSE "U+0"

u005c == <<"u", "0", "0", "5", "c">>

\* the pre-pass of decode_unicode_with_escapes from the i-th character: what
\* it writes to buf
RECURSIVE PrePass(_, _)
PrePass(s, i) ==
    IF i > Len(s) THEN <<>>
    ELSE LET bs == s[i] = "\\"
             j == IF bs THEN i + 1 ELSE i
             pre == IF ~bs THEN <<>>
                    ELSE IF j > Len(s) \/ s[j] \in NonAscii THEN <<"\\">> \o u005c
                    ELSE <<"\\">>
         IN  IF j > Len(s) THEN pre
             ELSE IF s[j] \in NonAscii
                  THEN pre \o <<"\\", "U", Hex8(s[j])>> \o PrePass(s, j + 1)
                  ELSE pre \o <<s[j]>> \o PrePass(s, j + 1)

\* _PyUnicode_DecodeUnicodeEscape from the i-th character of buf: ok is FALSE
\* for a malformed \u, \U, a \N{...} (no text of the model holds the name of
\* a character) or a backslash at the end; inv is the character of
\* the first escape it does not know ("" if there is none), which it leaves
\* in the text with its backslash
RECURSIVE DecodeUnicodeEscape(_, _)
DecodeUnicodeEscape(b, i) ==
    IF i > Len(b) THEN [ok |-> TRUE, v |-> <<>>, inv |-> ""]
    ELSE IF b[i] # "\\"
    THEN LET r == DecodeUnicodeEscape(b, i + 1)
         IN  [r EXCEPT !.v = <<b[i]>> \o @]
    ELSE IF i = Len(b) THEN [ok |-> FALSE, v |-> <<>>, inv |-> ""]
    ELSE LET c == b[i + 1]
         IN  IF c = "\\"
             THEN LET r == DecodeUnicodeEscape(b, i + 2)
                  IN  [r EXCEPT !.v = <<"\\">> \o @]
             ELSE IF c = "n"
             THEN LET r == DecodeUnicodeEscape(b, i + 2)
                  IN  [r EXCEPT !.v = <<"LF">> \o @]
             ELSE IF c = "N"
             THEN [ok |-> FALSE, v |-> <<>>, inv |-> ""]
             ELSE IF c = "U"
             THEN IF i + 2 <= Len(b) /\ b[i + 2] \in {"000000e9", "00000000"}
                  THEN LET r == DecodeUnicodeEscape(b, i + 3)
                       IN  [r EXCEPT !.v = <<FromHex8(b[i + 2])>> \o @]
                  ELSE [ok |-> FALSE, v |-> <<>>, inv |-> ""]
             ELSE IF c = "u"
             THEN IF i + 5 <= Len(b) /\ SubSeq(b, i + 1, i + 5) = u005c
                  THEN LET r == DecodeUnicodeEscape(b, i + 6)
                       IN  [r EXCEPT !.v = <<"\\">> \o @]
                  ELSE [ok |-> FALSE, v |-> <<>>, inv |-> ""]
             ELSE LET r == DecodeUnicodeEscape(b, i + 2)
                  IN  [r EXCEPT !.v = <<"\\", c>> \o @, !.inv = c]

\* what the environment of a call decides: whether the allocation of a buffer
\* succeeds, whether the bytes outside ASCII are valid UTF-8, and what issuing
\* a DeprecationWarning does: "ok", "error" (warnings are errors: the warning
\* comes back as an exception) or "fail" (another failure)
DecodeEnvs == [alloc_ok : BOOLEAN, utf8_ok : BOOLEAN, warn : {"ok", "error", "fail"}]

GoodEnv == [alloc_ok |-> TRUE, utf8_ok |-> TRUE, warn |-> "ok"]

\* the message "invalid escape sequence \%c", whatever the character c is
InvalidEscape(c) == "invalid escape sequence"

\* warn_invalid_escape_sequence as it would be if it left the
\* DeprecationWarning pending
warn_invalid_escape_sequence_keeps_warning(w, c, env) ==
    IF env.warn = "ok" THEN [w |-> w, rc |-> 0]
    ELSE IF env.warn = "error"
    THEN [w |-> [w EXCEPT !.err = [exc |-> "DeprecationWarning", msg |-> InvalidEscape(c),
                                   lineno |-> 0, col |-> 0]],
          rc |-> -1]
    ELSE [w |-> [w EXCEPT !.err = MemoryError], rc |-> -1]

\* warn_invalid_escape_sequence(p, c): 0, or -1 with a SyntaxError in the
\* place of the DeprecationWarning, or -1 with the error of the failure
warn_invalid_escape_sequence(w, c, env) ==
    IF env.warn = "ok" THEN [w |-> w, rc |-> 0]
    ELSE IF env.warn = "error"
    THEN [w |-> raise_syntax_error([w EXCEPT !.err = NoErr], InvalidEscape(c), TRUE).w,
          rc |-> -1]
    ELSE [w |-> [w EXCEPT !.err = MemoryError], rc |-> -1]

\* decode_unicode_with_escapes(parser, s, len): ok and the text v, or NULL
\* (ok FALSE) with an error pending; u_allocs and u_frees count the
\* allocations and releases of the buffer u, warned holds the characters
\* warn_invalid_escape_sequence was called with.  The test len > SIZE_MAX / 6
\* holds for no text of the model.
decode_unicode_with_escapes(w, s, env) ==
    IF ~env.alloc_ok
    THEN [w |-> [w EXCEPT !.err = MemoryError], ok |-> FALSE, v |-> <<>>,
          u_allocs |-> 0, u_frees |-> 0, warned |-> <<>>]
    ELSE IF ~env.utf8_ok /\ \E i \in 1..Len(s) : s[i] \in NonAscii
    THEN [w |-> [w EXCEPT !.err = [exc |-> "UnicodeDecodeError", msg |-> "",
                                   lineno |-> 0, col |-> 0]],
          ok |-> FALSE, v |-> <<>>, u_allocs |-> 1, u_frees |-> 1, warned |-> <<>>]
    ELSE LET d == DecodeUnicodeEscape(PrePass(s, 1), 1)
             wr == warn_invalid_escape_sequence(w, d.inv, env)
         IN  IF ~d.ok
             THEN [w |-> [w EXCEPT !.err = [exc |-> "UnicodeDecodeError", msg |-> "",
                                            lineno |-> 0, col |-> 0]],
                   ok |-> FALSE, v |-> <<>>, u_allocs |-> 1, u_frees |-> 1,
                   warned |-> <<>>]
             ELSE IF d.inv # "" /\ wr.rc < 0
             THEN [w |-> wr.w, ok |-> FALSE, v |-> <<>>, u_allocs |-> 1, u_frees |-> 1,
                   warned |-> <<d.inv>>]
             ELSE [w |-> w, ok |-> TRUE, v |-> d.v, u_allocs |-> 1, u_frees |-> 1,
                   warned |-> IF d.inv # "" THEN <<d.inv>> ELSE <<>>]

(***************************************************************************)
(* run_parser from its entry to its return, with the start rule as the     *)
(* calls it can make: expect_token, an error raised by an action, the      *)
(* f-string sub-parser fstring_compile_expr.  A block of memory is "unset" *)
(* before its allocation, "null" when the allocation failed, then "live",  *)
(* then "freed".                                                           *)
(***************************************************************************)
\* at most this many invocations of fstring_compile_expr in one parse
MaxSub == 1

OutOfMemory(msg) == [exc |-> "MemoryError", msg |-> msg, lineno |-> 0, col |-> 0]

RunStart ==
    [p |-> "unset", arr |-> "unset", arena |-> "unset",
     p_frees |-> 0, arr_frees |-> 0, arena_frees |-> 0, slot_frees |-> 0,
     started |-> FALSE, returned |-> FALSE, res |-> NULL, pending |-> NoErr,
     result |-> NULL, subs |-> 0]

\* the value of a field of a struct that was allocated and never written
Uninitialized == {0, 1}

InitRun ==
    /\ tokens = <<>>
    /\ mark = 0
    /\ fill = 0
    /\ size = 0
    /\ err = NoErr
    /\ pc = "malloc_parser"
    /\ call = NoCall
    /\ hist = [x \in Positions \X RuleIds |-> NoWrite]
    /\ run = RunStart
    /\ sub = NotStarted
    /\ scan = NotStarted

\* Parser *p = PyMem_Malloc(sizeof(Parser))
RP_MallocParser ==
    /\ pc = "malloc_parser"
    /\ \E ok \in BOOLEAN :
          IF ok
          THEN /\ run' = [run EXCEPT !.p = "live"]
               /\ pc' = "malloc_tokens"
               /\ err' = err
          ELSE /\ run' = [run EXCEPT !.p = "null"]
               /\ pc' = "exit"
               /\ err' = OutOfMemory("Out of memory for Parser")
    /\ UNCHANGED <<tokens, mark, fill, size, call, hist, sub, scan>>

\* p->tokens = PyMem_Malloc(sizeof(Token *)), then the first slot and
\* p->mark = 0, p->fill = 0, p->size = 1.  The result of the allocation of
\* the slot is not tested: when it fails, memset writes through NULL.
RP_MallocTokens ==
    /\ pc = "malloc_tokens"
    /\ \E ok \in BOOLEAN, slot \in BOOLEAN :
          IF ok
          THEN /\ run' = [run EXCEPT !.arr = "live"]
               /\ tokens' = <<ZeroToken>>
               /\ size' = 1
               /\ pc' = IF slot THEN "arena_new" ELSE "crashed"
               /\ err' = err
          ELSE /\ run' = [run EXCEPT !.arr = "null"]
               /\ pc' = "exit"
               /\ err' = OutOfMemory("Out of memory for tokens")
               /\ UNCHANGED <<tokens, size>>
    /\ UNCHANGED <<mark, fill, call, hist, sub, scan>>

\* p->arena = PyArena_New()
RP_ArenaNew ==
    /\ pc = "arena_new"
    /\ \E ok \in BOOLEAN :
          IF ok
          THEN /\ run' = [run EXCEPT !.arena = "live"]
               /\ pc' = "first_fill"
               /\ err' = err
          ELSE /\ run' = [run EXCEPT !.arena = "null"]
               /\ pc' = "exit"
               /\ err' = OutOfMemory("")
    /\ UNCHANGED <<tokens, mark, fill, size, call, hist, sub, scan>>

\* if (fill_token(p) < 0) goto exit; PyErr_Clear(); the start rule is called
RP_FirstFill ==
    /\ pc = "first_fill"
    /\ \E lx \in LexResults :
          LET f == fill_token(World, lx)
          IN  /\ Becomes(Res(IF f.rc < 0 THEN f.w ELSE [f.w EXCEPT !.err = NoErr],
                             IntRet(f.rc), NULL, 1, <<>>),
                         "fill_token", <<>>)
              /\ pc' = IF f.rc < 0 THEN "exit" ELSE "rule"
              /\ run' = [run EXCEPT !.started = f.rc >= 0]
    /\ UNCHANGED <<hist, sub, scan>>

\* no invocation of fstring_compile_expr is in progress
SubIdle == sub.pc \in {"none", "returned"}

\* the start rule consumes or fails to find a token
RuleExpect ==
    /\ pc = "rule"
    /\ SubIdle
    /\ MayFill
    /\ \E lx \in Lex :
          Becomes(expect_token(World, NAME, lx), "expect_token", <<>>)
    /\ UNCHANGED <<pc, hist, run, sub, scan>>

\* an action of the start rule fails and leaves its error pending
RuleRaise ==
    /\ pc = "rule"
    /\ SubIdle
    /\ err = NoErr
    /\ err' = MemoryError
    /\ call' = [NoCall EXCEPT !.op = "action"]
    /\ UNCHANGED <<tokens, mark, fill, size, pc, hist, run, sub, scan>>

\* void *res = (*start_rule_func)(p) returns
RuleReturn ==
    /\ pc = "rule"
    /\ SubIdle
    /\ \E res \in NodeIds :
          run' = [run EXCEPT !.returned = TRUE, !.res = res, !.pending = err]
    /\ pc' = "returned"
    /\ call' = [NoCall EXCEPT !.op = "start_rule"]
    /\ UNCHANGED <<tokens, mark, fill, size, err, hist, sub, scan>>

\* run_parser from the return of the start rule to the label exit: the
\* SyntaxError of a failed parse, or the result of the mode (the code object
\* of mode 2 and the object of mode 1 can fail to be made, None of the other
\* modes cannot)
RP_AfterRule ==
    /\ pc = "returned"
    /\ pc' = "exit"
    /\ IF run.res = NULL
       THEN /\ IF err # NoErr
               THEN err' = err
               ELSE \E ok \in BOOLEAN :
                       err' = raise_syntax_error(World,
                                  IF fill = 0 THEN "error at start before reading any input"
                                              ELSE "invalid syntax", ok).w.err
            /\ run' = run
       ELSE /\ \E mode \in 0..2, made \in {NULL, 1} :
                  run' = [run EXCEPT !.result = IF mode = 0 THEN 1 ELSE made]
            /\ err' = err
    /\ call' = [NoCall EXCEPT !.op = "run_parser"]
    /\ UNCHANGED <<tokens, mark, fill, size, hist, sub, scan>>

\* the label exit of run_parser: the loop over p->size slots, PyMem_Free of
\* the array, PyArena_Free if p->arena != NULL, PyMem_Free(p).  With p NULL
\* the read of p->size is a null dereference; with p allocated and the array
\* not, p->size and p->arena were never written.  crash: the process dies on
\* the invalid access; the other outcome is the access reading zeroes.
RP_Exit ==
    /\ pc = "exit"
    /\ IF run.p = "null"
       THEN \E zeroes \in BOOLEAN :
               /\ pc' = IF zeroes THEN "done" ELSE "crashed"
               /\ run' = run
       ELSE IF run.arr = "null"
       THEN \E n \in Uninitialized, a \in Uninitialized :
               IF n = 0 /\ a = 0
               THEN /\ pc' = "done"
                    /\ run' = [run EXCEPT !.p = "freed", !.p_frees = @ + 1]
               ELSE /\ pc' = "crashed"
                    /\ run' = run
       ELSE /\ pc' = "done"
            /\ run' = [run EXCEPT
                         !.slot_frees = @ + size,
                         !.arr = "freed", !.arr_frees = @ + 1,
                         !.arena = IF @ = "live" THEN "freed" ELSE @,
                         !.arena_frees = IF run.arena = "live" THEN @ + 1 ELSE @,
                         !.p = "freed", !.p_frees = @ + 1]
    /\ call' = [NoCall EXCEPT !.op = "exit"]
    /\ UNCHANGED <<tokens, mark, fill, size, err, hist, sub, scan>>

(***************************************************************************)
(* fstring_compile_expr(p, expr_start, expr_end), called from the start    *)
(* rule: the inner parser p2 is in sub.w, its blocks of memory in the      *)
(* fields str (the "(" + body + ")" buffer), tok (the tokenizer), p2 and   *)
(* arr2 (p2->tokens).                                                      *)
(***************************************************************************)
\* the text between expr_start and expr_end
Bodies == { <<" ">>, <<"a">>, <<" ", "a">>, <<"\t", "\n">> }

\* the loop over the characters that the Python parser ignores
IsBlank(body) == \A i \in 1..Len(body) : body[i] \in {" ", "\t", "\n", "\f"}

\* the pointers fstring_compile_expr can hand back: NULL, 1 for the value of
\* the statement of the module (mod->v.Module.body[0]), 2 for another node
ExprValues == {NULL, 1, 2}

SubStart ==
    [pc |-> "called", body |-> <<>>,
     str |-> "unset", tok |-> "unset", p2 |-> "unset", arr2 |-> "unset",
     str_frees |-> 0, tok_frees |-> 0, p2_frees |-> 0, arr2_frees |-> 0,
     slot_frees |-> 0, arena_frees |-> 0,
     w |-> [tokens |-> <<>>, mark |-> 0, fill |-> 0, size |-> 0],
     mod |-> "unset", nbody |-> 0, ret |-> NULL]

\* the inner parser with the pending error, which is the thread's
Inner == [tokens |-> sub.w.tokens, mark |-> sub.w.mark, fill |-> sub.w.fill,
          size |-> sub.w.size, err |-> err]

WithoutErr(w) == [tokens |-> w.tokens, mark |-> w.mark, fill |-> w.fill, size |-> w.size]

\* the call, up to the test of an expression made of whitespace only
FS_Call ==
    /\ pc = "rule"
    /\ SubIdle
    /\ fill > 0
    /\ run.subs < MaxSub
    /\ \E body \in Bodies, ok \in BOOLEAN :
          IF IsBlank(body)
          THEN /\ sub' = [SubStart EXCEPT !.pc = "returned", !.body = body]
               /\ err' = raise_syntax_error(World,
                             "f-string: empty expression not allowed", ok).w.err
          ELSE /\ sub' = [SubStart EXCEPT !.pc = "malloc_str", !.body = body]
               /\ err' = err
    /\ run' = [run EXCEPT !.subs = @ + 1]
    /\ call' = [NoCall EXCEPT !.op = "fstring_compile_expr"]
    /\ UNCHANGED <<tokens, mark, fill, size, pc, hist, scan>>

\* str = PyMem_RawMalloc(len + 3)
FS_MallocStr ==
    /\ pc = "rule"
    /\ sub.pc = "malloc_str"
    /\ \E ok \in BOOLEAN :
          IF ok
          THEN /\ sub' = [sub EXCEPT !.pc = "tokenizer", !.str = "live"]
               /\ err' = err
          ELSE /\ sub' = [sub EXCEPT !.pc = "returned", !.str = "null"]
               /\ err' = MemoryError
    /\ UNCHANGED <<tokens, mark, fill, size, pc, call, hist, run, scan>>

\* tok = PyTokenizer_FromString(str, 1)
FS_Tokenizer ==
    /\ pc = "rule"
    /\ sub.pc = "tokenizer"
    /\ \E ok \in BOOLEAN :
          IF ok
          THEN /\ sub' = [sub EXCEPT !.pc = "malloc_p2", !.tok = "live"]
               /\ err' = err
          ELSE /\ sub' = [sub EXCEPT !.pc = "returned", !.tok = "null"]
               /\ err' = MemoryError
    /\ UNCHANGED <<tokens, mark, fill, size, pc, call, hist, run, scan>>

\* Parser *p2 = PyMem_Malloc(sizeof(Parser))
FS_MallocP2 ==
    /\ pc = "rule"
    /\ sub.pc = "malloc_p2"
    /\ \E ok \in BOOLEAN :
          IF ok
          THEN /\ sub' = [sub EXCEPT !.pc = "malloc_tokens2", !.p2 = "live"]
               /\ err' = err
          ELSE /\ sub' = [sub EXCEPT !.pc = "exit", !.p2 = "null"]
               /\ err' = OutOfMemory("Out of memory for Parser")
    /\ UNCHANGED <<tokens, mark, fill, size, pc, call, hist, run, scan>>

\* p2->tokens = PyMem_Malloc(sizeof(Token *)), then the first slot (its
\* allocation is not tested) and p2->mark = 0, p2->fill = 0, p2->size = 1,
\* p2->arena = p->arena
FS_MallocTokens2 ==
    /\ pc = "rule"
    /\ sub.pc = "malloc_tokens2"
    /\ \E ok \in BOOLEAN, slot \in BOOLEAN :
          IF ok
          THEN /\ sub' = [sub EXCEPT !.pc = IF slot THEN "fill" ELSE "crashed",
                                     !.arr2 = "live",
                                     !.w = [tokens |-> <<ZeroToken>>, mark |-> 0,
                                            fill |-> 0, size |-> 1]]
               /\ pc' = IF slot THEN pc ELSE "crashed"
               /\ err' = err
          ELSE /\ sub' = [sub EXCEPT !.pc = "exit", !.arr2 = "null"]
               /\ pc' = pc
               /\ err' = OutOfMemory("Out of memory for tokens")
    /\ UNCHANGED <<tokens, mark, fill, size, call, hist, run, scan>>

\* if (fill_token(p2) < 0) goto exit; PyErr_Clear()
FS_Fill ==
    /\ pc = "rule"
    /\ sub.pc = "fill"
    /\ \E lx \in LexResults :
          LET f == fill_token(Inner, lx)
          IN  /\ sub' = [sub EXCEPT !.pc = IF f.rc < 0 THEN "exit" ELSE "rule",
                                    !.w = WithoutErr(f.w)]
              /\ err' = IF f.rc < 0 THEN f.w.err ELSE NoErr
    /\ call' = [NoCall EXCEPT !.op = "fill_token(p2)"]
    /\ UNCHANGED <<tokens, mark, fill, size, pc, hist, run, scan>>

\* the start rule, called on p2, consumes or fails to find a token
FS_RuleExpect ==
    /\ pc = "rule"
    /\ sub.pc = "rule"
    /\ sub.w.mark = sub.w.fill => sub.w.fill < MaxFill
    /\ \E lx \in LexFor(Inner) :
          LET r == expect_token(Inner, NAME, lx)
          IN  /\ sub' = [sub EXCEPT !.w = WithoutErr(r.w)]
              /\ err' = r.w.err
    /\ call' = [NoCall EXCEPT !.op = "expect_token(p2)"]
    /\ UNCHANGED <<tokens, mark, fill, size, pc, hist, run, scan>>

\* mod = the_start_rule(p2); PyTokenizer_Free(tok); if (!mod) return NULL.
\* The module has nbody statements.
FS_RuleReturn ==
    /\ pc = "rule"
    /\ sub.pc = "rule"
    /\ \E made \in BOOLEAN, n \in 0..2 :
          sub' = [sub EXCEPT !.pc = IF made THEN "exit" ELSE "returned",
                             !.mod = IF made THEN "module" ELSE "null",
                             !.nbody = IF made THEN n ELSE 0,
                             !.tok = "freed", !.tok_frees = @ + 1]
    /\ call' = [NoCall EXCEPT !.op = "start_rule(p2)"]
    /\ UNCHANGED <<tokens, mark, fill, size, err, pc, hist, run, scan>>

\* the label exit of fstring_compile_expr and what follows it.  With p2 NULL
\* the read of p2->size is a null dereference; with the array not allocated
\* p2->size was never written; on both paths and after a failed fill_token
\* mod was never written.  The value returned is expr->v.Subscript.value,
\* where no variable expr is declared: any pointer.
FS_Exit ==
    /\ pc = "rule"
    /\ sub.pc = "exit"
    /\ \E crash \in BOOLEAN, n \in Uninitialized, m \in Uninitialized,
          ok \in BOOLEAN, e \in ExprValues :
          LET invalid == sub.p2 = "null" \/ (sub.arr2 = "null" /\ n # 0)
              freed == IF sub.p2 = "null" THEN sub
                       ELSE IF sub.arr2 = "null"
                       THEN [sub EXCEPT !.p2 = "freed", !.p2_frees = @ + 1]
                       ELSE [sub EXCEPT !.slot_frees = @ + sub.w.size,
                                        !.arr2 = "freed", !.arr2_frees = @ + 1,
                                        !.p2 = "freed", !.p2_frees = @ + 1]
              modnull == IF sub.mod = "unset" THEN m = 0 ELSE sub.mod = "null"
          IN  IF (invalid /\ crash) \/ (sub.mod = "unset" /\ ~modnull /\ crash)
              THEN /\ sub' = [sub EXCEPT !.pc = "crashed"]
                   /\ pc' = "crashed"
                   /\ err' = err
              ELSE IF modnull
              THEN /\ sub' = [freed EXCEPT !.pc = "returned", !.ret = NULL]
                   /\ pc' = pc
                   /\ err' = err
              ELSE /\ sub' = [freed EXCEPT !.pc = "returned", !.ret = e]
                   /\ pc' = pc
                   /\ err' = IF sub.mod = "module" /\ sub.nbody = 1 THEN err
                             ELSE raise_syntax_error(World,
                                      "f-string: invalid expression", ok).w.err
    /\ call' = [NoCall EXCEPT !.op = "fstring_exit"]
    /\ UNCHANGED <<tokens, mark, fill, size, hist, run, scan>>

NextRun ==
    \/ RP_MallocParser
    \/ RP_MallocTokens
    \/ RP_ArenaNew
    \/ RP_FirstFill
    \/ RuleExpect
    \/ RuleRaise
    \/ RuleReturn
    \/ RP_AfterRule
    \/ RP_Exit
    \/ FS_Call
    \/ FS_MallocStr
    \/ FS_Tokenizer
    \/ FS_MallocP2
    \/ FS_MallocTokens2
    \/ FS_Fill
    \/ FS_RuleExpect
    \/ FS_RuleReturn
    \/ FS_Exit

SpecRun == InitRun /\ [][NextRun]_vars

(***************************************************************************)
(* The literal part of an f-string: fstring_find_literal and the loop of   *)
(* FstringParser_ConcatFstring around it.  A body is the text between      *)
(* *str and end, a position the offset of a pointer from its start.        *)
(***************************************************************************)
\* the longest body over the whole alphabet, and the longest text between
\* doubled braces
MaxBody == 3
MaxX == 2

\* while (s < end && *s++ != '}') { }
RECURSIVE SkipName(_, _)
SkipName(body, s) ==
    IF s >= Len(body) THEN s
    ELSE IF body[s + 1] = "}" THEN s + 1
    ELSE SkipName(body, s + 1)

\* the block as it would be if braces were never doubled
brace_in_literal_never_doubled(body, s, ch, recurse_lvl) ==
    IF recurse_lvl = 0 /\ ch = "}"
    THEN [kind |-> "single", str |-> s - 1]
    ELSE [kind |-> "stop", str |-> s - 1]

\* the block as it would be if it looked for a single '}' at every level
brace_in_literal_any_level(body, s, ch, recurse_lvl) ==
    IF recurse_lvl = 0 /\ s < Len(body) /\ body[s + 1] = ch
    THEN [kind |-> "doubled", str |-> s + 1]
    ELSE IF ch = "}"
    THEN [kind |-> "single", str |-> s - 1]
    ELSE [kind |-> "stop", str |-> s - 1]

\* fstring_find_literal at a brace ch, with s just after it: "doubled" (the
\* literal ends here and the scan resumes after the second brace), "single"
\* (a lone '}' at the top level) or "stop" (the literal ends before the brace)
brace_in_literal(body, s, ch, recurse_lvl) ==
    IF recurse_lvl = 0 /\ s < Len(body) /\ body[s + 1] = ch
    THEN [kind |-> "doubled", str |-> s + 1]
    ELSE IF recurse_lvl = 0 /\ ch = "}"
    THEN [kind |-> "single", str |-> s - 1]
    ELSE [kind |-> "stop", str |-> s - 1]

\* the loop of fstring_find_literal from s: how it ends ("done" for the goto
\* of a doubled brace, "end" for a break or the end of the text, "error" for
\* a return of -1), the final s, and *str if it was written
RECURSIVE LitScan(_, _, _, _, _, _)
LitScan(w, body, s, raw, recurse_lvl, env) ==
    IF s >= Len(body) THEN [kind |-> "end", s |-> s, moved |-> TRUE, str |-> s, w |-> w]
    ELSE LET esc == ~raw /\ body[s + 1] = "\\" /\ s + 1 < Len(body)
             ch == IF esc THEN body[s + 2] ELSE body[s + 1]
             t == IF esc THEN s + 2 ELSE s + 1
             wr == warn_invalid_escape_sequence(w, ch, env)
             b == brace_in_literal(body, t, ch, recurse_lvl)
         IN  IF esc /\ ch = "N"
             THEN IF t < Len(body) /\ body[t + 1] = "{"
                  THEN LitScan(w, body, SkipName(body, t + 1), raw, recurse_lvl, env)
                  ELSE LET u == IF t < Len(body) THEN t + 1 ELSE t
                       IN  [kind |-> "end", s |-> u, moved |-> TRUE, str |-> u, w |-> w]
             ELSE IF esc /\ ch = "{" /\ wr.rc < 0
             THEN [kind |-> "error", s |-> t, moved |-> FALSE, str |-> 0, w |-> wr.w]
             ELSE IF ch \in {"{", "}"}
             THEN IF b.kind = "doubled"
                  THEN [kind |-> "done", s |-> t, moved |-> TRUE, str |-> b.str, w |-> w]
                  ELSE IF b.kind = "single"
                  THEN [kind |-> "error", s |-> t, moved |-> TRUE, str |-> b.str,
                        w |-> raise_syntax_error(w, "f-string: single '}' is not allowed",
                                                 env.alloc_ok).w]
                  ELSE [kind |-> "end", s |-> t - 1, moved |-> TRUE, str |-> t - 1, w |-> w]
             ELSE LitScan(w, body, t, raw, recurse_lvl, env)

\* PyUnicode_DecodeUTF8Stateful(s, len, NULL, NULL): the text, or NULL
DecodeUTF8Stateful(w, s, env) ==
    IF ~env.alloc_ok
    THEN [w |-> [w EXCEPT !.err = MemoryError], ok |-> FALSE, v |-> <<>>]
    ELSE IF ~env.utf8_ok /\ \E i \in 1..Len(s) : s[i] \in NonAscii
    THEN [w |-> [w EXCEPT !.err = [exc |-> "UnicodeDecodeError", msg |-> "",
                                   lineno |-> 0, col |-> 0]],
          ok |-> FALSE, v |-> <<>>]
    ELSE [w |-> w, ok |-> TRUE, v |-> s]

NoLiteral == [null |-> TRUE, v |-> <<>>]

\* fstring_find_literal(p, str, end, raw, literal, recurse_lvl), with *str at
\* the offset str of body: the value returned, *str and *literal after it;
\* assert_ok is the value of the assertion s == end || *s == '{' || *s == '}'
\* where the function evaluates it (TRUE where it does not)
fstring_find_literal(w, body, str, raw, recurse_lvl, env) ==
    LET sc == LitScan(w, body, str, raw, recurse_lvl, env)
        text == SubSeq(body, str + 1, sc.s)
        d == IF raw THEN DecodeUTF8Stateful(sc.w, text, env)
             ELSE decode_unicode_with_escapes(sc.w, text, env)
        assert_ok == sc.kind = "end" => (sc.s >= Len(body) \/ body[sc.s + 1] \in {"{", "}"})
    IN  IF sc.kind = "error"
        THEN [w |-> sc.w, rc |-> -1, str |-> IF sc.moved THEN sc.str ELSE str,
              literal |-> NoLiteral, assert_ok |-> TRUE]
        ELSE IF sc.s = str
        THEN [w |-> sc.w, rc |-> IF sc.kind = "done" THEN 1 ELSE 0, str |-> sc.str,
              literal |-> NoLiteral, assert_ok |-> assert_ok]
        ELSE IF ~d.ok
        THEN [w |-> d.w, rc |-> -1, str |-> sc.str, literal |-> NoLiteral,
              assert_ok |-> assert_ok]
        ELSE [w |-> d.w, rc |-> IF sc.kind = "done" THEN 1 ELSE 0, str |-> sc.str,
              literal |-> [null |-> FALSE, v |-> d.v], assert_ok |-> assert_ok]

\* the characters of the bodies
LitAlphabet == {"a", "{", "}", "\\", "U+E9"}

\* the sequences over a set of characters, up to a length
RECURSIVE SeqsUpTo(_, _)
SeqsUpTo(S, n) ==
    IF n = 0 THEN {<<>>}
    ELSE LET shorter == SeqsUpTo(S, n - 1)
         IN  shorter \cup { Append(x, c) : x \in shorter, c \in S }

\* the texts without brace and backslash that stand between doubled braces
XTexts == SeqsUpTo({"a", "U+E9", "n"}, MaxX)

DoubledBody(x) == <<"{", "{">> \o x \o <<"}", "}">>

LitBodies ==
    SeqsUpTo(LitAlphabet, MaxBody)
        \cup { DoubledBody(x) : x \in XTexts }
        \cup { <<"\\", "N", "{", "a", "}", "}">>, <<"\\", "N", "a">>, <<"a", "\\", "{", "a">>,
               <<"\\", "N", "a", "b">>, <<"\\", "N", "{", "a">>, <<"\\", "N">>,
               <<"\\", "N", "{", "a", "}", "{">>, <<"a", "\\", "N", "b", "a", "}">> }

\* the token of the string, the last one read when its text is scanned
StringToken ==
    [type |-> STRING_TOKEN, bytes |-> <<"f">>, lineno |-> 1, col_offset |-> 2,
     end_lineno |-> 1, end_col_offset |-> 3, memo |-> <<>>]

\* FstringParser_ConcatFstring is entered: state->last_str is NULL (here the
\* empty text, a literal being never empty) and the list of expressions empty
InitLit ==
    /\ tokens = <<StringToken>>
    /\ mark = 1
    /\ fill = 1
    /\ size = 1
    /\ err = NoErr
    /\ pc = "fstring"
    /\ call = NoCall
    /\ hist = [x \in Positions \X RuleIds |-> NoWrite]
    /\ run = NotStarted
    /\ sub = NotStarted
    /\ \E body \in LitBodies, raw \in BOOLEAN, lvl \in 0..1, env \in DecodeEnvs :
          scan = [pc |-> "loop", body |-> body, raw |-> raw, recurse_lvl |-> lvl,
                  env |-> env, str |-> 0, last_str |-> <<>>, rc |-> 0, result |-> 0,
                  literal |-> NoLiteral, from |-> 0]

\* one turn of the loop of FstringParser_ConcatFstring: the call of
\* fstring_find_literal_and_expr up to its call of fstring_find_expr, and
\* FstringParser_ConcatAndDel of the literal.  Where the assertion of
\* fstring_find_literal is false, a build with assertions stops there and a
\* build without them goes on.
CF_Literal ==
    /\ pc = "fstring"
    /\ scan.pc = "loop"
    /\ \E asserts \in BOOLEAN :
       \E r \in { fstring_find_literal(World, scan.body, scan.str, scan.raw,
                                       scan.recurse_lvl, scan.env) } :
       LET at_end == r.str >= Len(scan.body) \/ scan.body[r.str + 1] = "}"
       IN  /\ scan' = [scan EXCEPT
                         !.pc = IF asserts /\ ~r.assert_ok THEN "aborted"
                                ELSE IF r.rc < 0 THEN "failed"
                                ELSE IF r.rc = 1 THEN "loop"
                                ELSE IF at_end THEN "check"
                                ELSE "expr",
                         !.from = scan.str,
                         !.str = r.str,
                         !.result = IF asserts /\ ~r.assert_ok THEN 0 ELSE r.rc,
                         !.literal = IF asserts /\ ~r.assert_ok THEN NoLiteral ELSE r.literal,
                         !.rc = IF r.rc < 0 THEN -1 ELSE 0,
                         !.last_str = IF r.rc < 0 \/ (asserts /\ ~r.assert_ok) THEN @
                                      ELSE @ \o r.literal.v]
           /\ err' = IF asserts /\ ~r.assert_ok THEN err ELSE r.w.err
    /\ call' = [NoCall EXCEPT !.op = "fstring_find_literal"]
    /\ UNCHANGED <<tokens, mark, fill, size, pc, hist, run, sub>>

\* after the loop: at the top level the text must be at its end, in a format
\* specification at a '}' (at the end of the text **str is the NUL byte)
CF_Check ==
    /\ pc = "fstring"
    /\ scan.pc = "check"
    /\ \E ok \in BOOLEAN :
          IF scan.recurse_lvl = 0 /\ scan.str < Len(scan.body) - 1
          THEN /\ scan' = [scan EXCEPT !.pc = "failed", !.rc = -1]
               /\ err' = raise_syntax_error(World, "f-string: unexpected end of string", ok).w.err
          ELSE IF scan.recurse_lvl # 0
                  /\ ~(scan.str < Len(scan.body) /\ scan.body[scan.str + 1] = "}")
          THEN /\ scan' = [scan EXCEPT !.pc = "failed", !.rc = -1]
               /\ err' = raise_syntax_error(World, "f-string: expecting '}'", ok).w.err
          ELSE /\ scan' = [scan EXCEPT !.pc = "done", !.rc = 0]
               /\ err' = err
    /\ call' = [NoCall EXCEPT !.op = "FstringParser_ConcatFstring"]
    /\ UNCHANGED <<tokens, mark, fill, size, pc, hist, run, sub>>

NextLit ==
    \/ CF_Literal
    \/ CF_Check

SpecLit == InitLit /\ [][NextLit]_vars

(***************************************************************************)
(* The scan of fstring_find_expr for the end of an expression: one step    *)
(* per turn of its for loop.  The body is the text from expr_start to end, *)
(* scan.str the offset of *str from expr_start.                            *)
(***************************************************************************)
\* the size of parenstack.  The macro is defined in a header of the
\* tokenizer, outside these sources; the scan is the same for any value.
MAXLEVEL == 3

\* the longest text over the whole alphabet
MaxExpr == 4

\* the longest text over the alphabet of the terminators
MaxTerm == 3

Openers == {"(", "[", "{"}
Closers == {")", "]", "}"}
Quotes == {"'", "\""}

\* (opening == '(' && ch == ')') || (opening == '[' && ch == ']') ||
\* (opening == '{' && ch == '}')
Matches(opening, ch) ==
    \/ opening = "(" /\ ch = ")"
    \/ opening = "[" /\ ch = "]"
    \/ opening = "{" /\ ch = "}"

\* parenstack[i] = ch; outside the array the write lands elsewhere
StackWrite(stack, i, ch) ==
    IF i >= 0 /\ i < MAXLEVEL THEN [stack EXCEPT ![i + 1] = ch] ELSE stack

\* parenstack[i]; outside the array the read yields anything, here "?"
StackRead(stack, i) ==
    IF i >= 0 /\ i < MAXLEVEL THEN stack[i + 1] ELSE "?"

\* the branch of an opening bracket as it would be without the test of the
\* depth
find_expr_open_unchecked(st, ch) ==
    [st EXCEPT !.parenstack = StackWrite(@, st.nested_depth, ch),
               !.acc = st.nested_depth,
               !.nested_depth = @ + 1,
               !.str = @ + 1]

\* else if (ch == '[' || ch == '{' || ch == '(')
find_expr_open(st, ch) ==
    IF st.nested_depth >= MAXLEVEL
    THEN [st EXCEPT !.pc = "error", !.raised = "f-string: too many nested parenthesis"]
    ELSE [st EXCEPT !.parenstack = StackWrite(@, st.nested_depth, ch),
                    !.acc = st.nested_depth,
                    !.nested_depth = @ + 1,
                    !.str = @ + 1]

\* else if (ch == ']' || ch == '}' || ch == ')')
find_expr_close(st, ch) ==
    IF st.nested_depth = 0
    THEN [st EXCEPT !.pc = "error", !.raised = "f-string: unmatched '%c'"]
    ELSE LET opening == StackRead(st.parenstack, st.nested_depth - 1)
         IN  IF Matches(opening, ch)
             THEN [st EXCEPT !.nested_depth = @ - 1, !.acc = st.nested_depth - 1,
                             !.str = @ + 1]
             ELSE [st EXCEPT !.nested_depth = @ - 1, !.acc = st.nested_depth - 1,
                             !.pc = "error",
                             !.raised = "f-string: closing parenthesis '%c' does not match opening parenthesis '%c'"]

\* *(*str + k) == ch, with *str + k < end
Ahead(st, k, ch) == st.str + k < Len(st.body) /\ st.body[st.str + k + 1] = ch

\* the branches as they would be if a backslash were looked for outside
\* strings only
find_expr_char_backslash_in_string(st, ch) ==
    IF ch = "\\" /\ st.quote_char = ""
    THEN [st EXCEPT !.pc = "error",
                    !.raised = "f-string expression part cannot include a backslash"]
    ELSE IF st.quote_char # ""
    THEN IF ch = st.quote_char
         THEN IF st.string_type = 3
              THEN IF Ahead(st, 2, ch) /\ Ahead(st, 1, ch)
                   THEN [st EXCEPT !.str = @ + 3, !.string_type = 0, !.quote_char = ""]
                   ELSE [st EXCEPT !.str = @ + 1]
              ELSE [st EXCEPT !.str = @ + 1, !.string_type = 0, !.quote_char = ""]
         ELSE [st EXCEPT !.str = @ + 1]
    ELSE IF ch \in Quotes
    THEN IF Ahead(st, 2, ch) /\ Ahead(st, 1, ch)
         THEN [st EXCEPT !.str = @ + 3, !.string_type = 3, !.quote_char = ch]
         ELSE [st EXCEPT !.str = @ + 1, !.string_type = 1, !.quote_char = ch]
    ELSE IF ch = "#"
    THEN [st EXCEPT !.pc = "error",
                    !.raised = "f-string expression part cannot include '#'"]
    ELSE IF st.nested_depth = 0 /\ ch \in {"!", ":", "}", "=", ">", "<"}
    THEN IF st.str + 1 < Len(st.body) /\ ch \in {"!", "=", "<", ">"} /\ Ahead(st, 1, "=")
         THEN [st EXCEPT !.str = @ + 2]
         ELSE IF st.str + 1 < Len(st.body) /\ ch \in {">", "<"}
         THEN [st EXCEPT !.str = @ + 1]
         ELSE [st EXCEPT !.pc = "after"]
    ELSE [st EXCEPT !.str = @ + 1]

\* the branches as they would be if a '#' were looked for at depth 0 only
find_expr_char_comment_nested(st, ch) ==
    IF ch = "\\"
    THEN [st EXCEPT !.pc = "error",
                    !.raised = "f-string expression part cannot include a backslash"]
    ELSE IF st.quote_char # ""
    THEN IF ch = st.quote_char
         THEN IF st.string_type = 3
              THEN IF Ahead(st, 2, ch) /\ Ahead(st, 1, ch)
                   THEN [st EXCEPT !.str = @ + 3, !.string_type = 0, !.quote_char = ""]
                   ELSE [st EXCEPT !.str = @ + 1]
              ELSE [st EXCEPT !.str = @ + 1, !.string_type = 0, !.quote_char = ""]
         ELSE [st EXCEPT !.str = @ + 1]
    ELSE IF ch \in Quotes
    THEN IF Ahead(st, 2, ch) /\ Ahead(st, 1, ch)
         THEN [st EXCEPT !.str = @ + 3, !.string_type = 3, !.quote_char = ch]
         ELSE [st EXCEPT !.str = @ + 1, !.string_type = 1, !.quote_char = ch]
    ELSE IF ch = "#" /\ st.nested_depth = 0
    THEN [st EXCEPT !.pc = "error",
                    !.raised = "f-string expression part cannot include '#'"]
    ELSE IF st.nested_depth = 0 /\ ch \in {"!", ":", "}", "=", ">", "<"}
    THEN IF st.str + 1 < Len(st.body) /\ ch \in {"!", "=", "<", ">"} /\ Ahead(st, 1, "=")
         THEN [st EXCEPT !.str = @ + 2]
         ELSE IF st.str + 1 < Len(st.body) /\ ch \in {">", "<"}
         THEN [st EXCEPT !.str = @ + 1]
         ELSE [st EXCEPT !.pc = "after"]
    ELSE [st EXCEPT !.str = @ + 1]

\* the other branches of the loop, for the character ch at *str
find_expr_char(st, ch) ==
    IF ch = "\\"
    THEN [st EXCEPT !.pc = "error",
                    !.raised = "f-string expression part cannot include a backslash"]
    ELSE IF st.quote_char # ""
    THEN IF ch = st.quote_char
         THEN IF st.string_type = 3
              THEN IF Ahead(st, 2, ch) /\ Ahead(st, 1, ch)
                   THEN [st EXCEPT !.str = @ + 3, !.string_type = 0, !.quote_char = ""]
                   ELSE [st EXCEPT !.str = @ + 1]
              ELSE [st EXCEPT !.str = @ + 1, !.string_type = 0, !.quote_char = ""]
         ELSE [st EXCEPT !.str = @ + 1]
    ELSE IF ch \in Quotes
    THEN IF Ahead(st, 2, ch) /\ Ahead(st, 1, ch)
         THEN [st EXCEPT !.str = @ + 3, !.string_type = 3, !.quote_char = ch]
         ELSE [st EXCEPT !.str = @ + 1, !.string_type = 1, !.quote_char = ch]
    ELSE IF ch = "#"
    THEN [st EXCEPT !.pc = "error",
                    !.raised = "f-string expression part cannot include '#'"]
    ELSE IF st.nested_depth = 0 /\ ch \in {"!", ":", "}", "=", ">", "<"}
    THEN IF st.str + 1 < Len(st.body) /\ ch \in {"!", "=", "<", ">"} /\ Ahead(st, 1, "=")
         THEN [st EXCEPT !.str = @ + 2]
         ELSE IF st.str + 1 < Len(st.body) /\ ch \in {">", "<"}
         THEN [st EXCEPT !.str = @ + 1]
         ELSE [st EXCEPT !.pc = "after"]
    ELSE [st EXCEPT !.str = @ + 1]

\* the characters of the expressions
ExprAlphabet == {"(", "[", "{", ")", "]", "}", "'", "a"}

\* the characters of the texts with backslashes, comments and the characters
\* that can end an expression
TermAlphabet == {"a", "(", ")", "'", "\\", "#", "<", ">", "=", "!", ":", "}"}

ExprBodies ==
    SeqsUpTo(ExprAlphabet, MaxExpr)
        \cup SeqsUpTo(TermAlphabet, MaxTerm)
        \cup { <<"a", "!", "=", "a", "}">>, <<"a", "<", "a", ":", "}">>, <<"#">>,
               <<"a", "\\">>, <<"\"", "\"", "\"", "}", "\"", "\"", "\"", "}">>,
               <<"(", "[", "{", "}", "]", ")", "}">>,
               [i \in 1..(MAXLEVEL + 2) |-> "("],
               [i \in 1..(MAXLEVEL + 1) |-> "["] \o <<"]", ")">> }

\* nothing of the loop has run
NoStep == [ch |-> "", nested_depth |-> 0, parenstack |-> <<>>, quote_char |-> ""]

\* what a turn of the loop leaves for the claims to look at: the character,
\* and the depth, the stack and the quote before it
Before(st, ch) ==
    [ch |-> ch, nested_depth |-> st.nested_depth, parenstack |-> st.parenstack,
     quote_char |-> st.quote_char]

\* fstring_find_expr is entered with *str on a '{'
InitExpr ==
    /\ tokens = <<StringToken>>
    /\ mark = 1
    /\ fill = 1
    /\ size = 1
    /\ err = NoErr
    /\ pc = "fexpr"
    /\ call = NoCall
    /\ hist = [x \in Positions \X RuleIds |-> NoWrite]
    /\ run = NotStarted
    /\ sub = NotStarted
    /\ \E body \in ExprBodies, lvl \in 0..2 :
          scan = [pc |-> "enter", body |-> body, str |-> 0, recurse_lvl |-> lvl,
                  quote_char |-> "", string_type |-> 0, nested_depth |-> 0,
                  parenstack |-> [i \in 1..MAXLEVEL |-> "?"], acc |-> -1,
                  raised |-> "", last |-> NoStep]

\* the error a step raised, if it raised one
Raise(st) ==
    \E ok \in BOOLEAN :
        err' = IF st.raised = "" THEN err ELSE raise_syntax_error(World, st.raised, ok).w.err

\* if (recurse_lvl >= 2) ...; *str += 1; expr_start = *str
FE_Enter ==
    /\ pc = "fexpr"
    /\ scan.pc = "enter"
    /\ LET st == IF scan.recurse_lvl >= 2
                 THEN [scan EXCEPT !.pc = "error",
                                   !.raised = "f-string: expressions nested too deeply"]
                 ELSE [scan EXCEPT !.pc = "scanning"]
       IN  scan' = st /\ Raise(st)
    /\ call' = [NoCall EXCEPT !.op = "fstring_find_expr"]
    /\ UNCHANGED <<tokens, mark, fill, size, pc, hist, run, sub>>

\* the character the loop is at
Ch == scan.body[scan.str + 1]

InLoop == pc = "fexpr" /\ scan.pc = "scanning" /\ scan.str < Len(scan.body)

\* a turn of the loop at an opening bracket outside a string
FE_Open ==
    /\ InLoop
    /\ scan.quote_char = ""
    /\ Ch \in Openers
    /\ LET st == find_expr_open([scan EXCEPT !.last = Before(scan, Ch)], Ch)
       IN  scan' = st /\ Raise(st)
    /\ call' = [NoCall EXCEPT !.op = "open"]
    /\ UNCHANGED <<tokens, mark, fill, size, pc, hist, run, sub>>

\* a turn of the loop at a closing bracket outside a string, unless it is a
\* '}' at depth 0, which ends the expression
FE_Close ==
    /\ InLoop
    /\ scan.quote_char = ""
    /\ Ch \in Closers
    /\ ~(scan.nested_depth = 0 /\ Ch = "}")
    /\ LET st == find_expr_close([scan EXCEPT !.last = Before(scan, Ch)], Ch)
       IN  scan' = st /\ Raise(st)
    /\ call' = [NoCall EXCEPT !.op = "close"]
    /\ UNCHANGED <<tokens, mark, fill, size, pc, hist, run, sub>>

\* a turn of the loop at any other character
FE_Char ==
    /\ InLoop
    /\ \/ scan.quote_char # ""
       \/ Ch \notin Openers \cup Closers
       \/ scan.nested_depth = 0 /\ Ch = "}"
    /\ LET st == find_expr_char([scan EXCEPT !.last = Before(scan, Ch)], Ch)
       IN  scan' = st /\ Raise(st)
    /\ call' = [NoCall EXCEPT !.op = "char"]
    /\ UNCHANGED <<tokens, mark, fill, size, pc, hist, run, sub>>

\* after the loop, up to the call of fstring_compile_expr
FE_AfterLoop ==
    /\ pc = "fexpr"
    /\ \/ scan.pc = "after"
       \/ scan.pc = "scanning" /\ scan.str >= Len(scan.body)
    /\ LET st == IF scan.quote_char # ""
                 THEN [scan EXCEPT !.pc = "error", !.raised = "f-string: unterminated string",
                                   !.last = NoStep]
                 ELSE IF scan.nested_depth # 0
                 THEN [scan EXCEPT !.pc = "error", !.raised = "f-string: unmatched '%c'",
                                   !.acc = scan.nested_depth - 1, !.last = NoStep]
                 ELSE IF scan.str >= Len(scan.body)
                 THEN [scan EXCEPT !.pc = "error",
                                   !.raised = "f-string: expecting '}'", !.last = NoStep]
                 ELSE [scan EXCEPT !.pc = "compile", !.last = NoStep]
       IN  scan' = st /\ Raise(st)
    /\ call' = [NoCall EXCEPT !.op = "after"]
    /\ UNCHANGED <<tokens, mark, fill, size, pc, hist, run, sub>>

NextExpr ==
    \/ FE_Enter
    \/ FE_Open
    \/ FE_Close
    \/ FE_Char
    \/ FE_AfterLoop

SpecExpr == InitExpr /\ [][NextExpr]_vars

(***************************************************************************)
(* The FstringParser: the pending string last_str, the list of nodes       *)
(* expr_list and the flag fmode.  A text is a sequence of characters, a    *)
(* PyObject *str that is NULL is NoLiteral.                                *)
(***************************************************************************)
\* at most this many strings and expressions are handed to one FstringParser
MaxArrivals == 4

EXPRLIST_N_CACHED == 64

\* FstringParser_Init
FstringParser_Init ==
    [last_str |-> NoLiteral, expr_list |-> <<>>, allocated |-> EXPRLIST_N_CACHED,
     fmode |-> 0]

\* make_str_node_and_del as it would be if it never set the kind
make_str_node_and_del_no_kind(str, ok) ==
    IF ~ok THEN [k |-> "NULL", v |-> <<>>, kind |-> ""]
    ELSE [k |-> "Constant", v |-> str.v, kind |-> ""]

\* make_str_node_and_del(p, &str, t): the Constant node, its kind "u" when
\* the first character of the text is 'u'; NULL when an allocation fails
make_str_node_and_del(str, ok) ==
    IF ~ok THEN [k |-> "NULL", v |-> <<>>, kind |-> ""]
    ELSE [k |-> "Constant", v |-> str.v,
          kind |-> IF Len(str.v) > 0 /\ str.v[1] = "u" THEN "u" ELSE ""]

\* ExprList_Append(&state->expr_list, exp): rc -1 when the list must grow
\* and cannot
ExprList_Append(state, exp, ok) ==
    IF Len(state.expr_list) >= state.allocated /\ ~ok
    THEN [state |-> state, rc |-> -1]
    ELSE [state |-> [state EXCEPT !.expr_list = Append(@, exp),
                                  !.allocated = IF Len(state.expr_list) >= @
                                                THEN 2 * @ ELSE @],
          rc |-> 0]

\* FstringParser_ConcatAndDel as it would be if it kept empty strings
FstringParser_ConcatAndDel_keep_empty(state, str, ok) ==
    IF state.last_str.null
    THEN [state |-> [state EXCEPT !.last_str = [null |-> FALSE, v |-> str]], rc |-> 0]
    ELSE IF ~ok
    THEN [state |-> [state EXCEPT !.last_str = NoLiteral], rc |-> -1]
    ELSE [state |-> [state EXCEPT !.last_str.v = @ \o str], rc |-> 0]

\* FstringParser_ConcatAndDel(state, str); ok: PyUnicode_AppendAndDel succeeds
FstringParser_ConcatAndDel(state, str, ok) ==
    IF Len(str) = 0 THEN [state |-> state, rc |-> 0]
    ELSE IF state.last_str.null
    THEN [state |-> [state EXCEPT !.last_str = [null |-> FALSE, v |-> str]], rc |-> 0]
    ELSE IF ~ok
    THEN [state |-> [state EXCEPT !.last_str = NoLiteral], rc |-> -1]
    ELSE [state |-> [state EXCEPT !.last_str.v = @ \o str], rc |-> 0]

\* the end of a turn of the loop of FstringParser_ConcatFstring that found
\* an expression: last_str, if any, becomes a Constant node of the list, then
\* the expression is appended
ConcatFstring_expression(state, expression, ok) ==
    LET str == make_str_node_and_del(state.last_str, ok)
        flushed == IF state.last_str.null THEN [state |-> state, rc |-> 0]
                   ELSE IF str.k = "NULL"
                   THEN [state |-> [state EXCEPT !.last_str = NoLiteral], rc |-> -1]
                   ELSE ExprList_Append([state EXCEPT !.last_str = NoLiteral], str, ok)
    IN  IF flushed.rc < 0 THEN flushed
        ELSE ExprList_Append(flushed.state, expression, ok)

NullNode == [k |-> "NULL", v |-> <<>>, kind |-> ""]

\* FstringParser_Finish(p, state, t): a Constant, a JoinedStr with the list
\* of nodes, or NULL
FstringParser_Finish(state, ok) ==
    IF state.fmode = 0
    THEN IF ~ok THEN NullNode
         ELSE make_str_node_and_del(IF state.last_str.null
                                    THEN [null |-> FALSE, v |-> <<>>]
                                    ELSE state.last_str, ok)
    ELSE LET str == make_str_node_and_del(state.last_str, ok)
             last == IF state.last_str.null THEN [state |-> state, rc |-> 0]
                     ELSE IF str.k = "NULL" THEN [state |-> state, rc |-> -1]
                     ELSE ExprList_Append([state EXCEPT !.last_str = NoLiteral], str, ok)
         IN  IF last.rc < 0 \/ ~ok THEN NullNode
             ELSE [k |-> "JoinedStr", v |-> last.state.expr_list, kind |-> ""]

\* the strings and the expressions handed to the FstringParser
AsmTexts == { <<>>, <<"a">>, <<"u">>, <<"b", "c">> }

AsmExpressions == { [k |-> "FormattedValue", v |-> <<"x">>, kind |-> ""],
                    [k |-> "FormattedValue", v |-> <<"y">>, kind |-> ""] }

\* FstringParser_Init(&state); arrivals is what was handed over so far
InitAsm ==
    /\ tokens = <<StringToken>>
    /\ mark = 1
    /\ fill = 1
    /\ size = 1
    /\ err = NoErr
    /\ pc = "asm"
    /\ call = NoCall
    /\ hist = [x \in Positions \X RuleIds |-> NoWrite]
    /\ run = NotStarted
    /\ sub = NotStarted
    /\ scan = [pc |-> "open", state |-> FstringParser_Init, arrivals |-> <<>>,
               node |-> NullNode]

\* a string is added
AS_ConcatAndDel ==
    /\ pc = "asm"
    /\ scan.pc = "open"
    /\ Len(scan.arrivals) < MaxArrivals
    /\ \E str \in AsmTexts, ok \in BOOLEAN :
          LET r == FstringParser_ConcatAndDel(scan.state, str, ok)
          IN  /\ scan' = [scan EXCEPT
                            !.state = r.state,
                            !.pc = IF r.rc < 0 THEN "failed" ELSE "open",
                            !.arrivals = Append(@, [k |-> "Constant", v |-> str, kind |-> ""])]
              /\ err' = IF r.rc < 0 THEN MemoryError ELSE err
    /\ call' = [NoCall EXCEPT !.op = "FstringParser_ConcatAndDel"]
    /\ UNCHANGED <<tokens, mark, fill, size, pc, hist, run, sub>>

\* FstringParser_ConcatFstring is entered: state->fmode = 1
AS_EnterFstring ==
    /\ pc = "asm"
    /\ scan.pc = "open"
    /\ scan.state.fmode = 0
    /\ scan' = [scan EXCEPT !.state.fmode = 1]
    /\ call' = [NoCall EXCEPT !.op = "FstringParser_ConcatFstring"]
    /\ UNCHANGED <<tokens, mark, fill, size, err, pc, hist, run, sub>>

\* inside FstringParser_ConcatFstring an expression is added
AS_Expression ==
    /\ pc = "asm"
    /\ scan.pc = "open"
    /\ scan.state.fmode = 1
    /\ Len(scan.arrivals) < MaxArrivals
    /\ \E e \in AsmExpressions, ok \in BOOLEAN :
          LET r == ConcatFstring_expression(scan.state, e, ok)
          IN  /\ scan' = [scan EXCEPT
                            !.state = r.state,
                            !.pc = IF r.rc < 0 THEN "failed" ELSE "open",
                            !.arrivals = Append(@, e)]
              /\ err' = IF r.rc < 0 THEN MemoryError ELSE err
    /\ call' = [NoCall EXCEPT !.op = "expression"]
    /\ UNCHANGED <<tokens, mark, fill, size, pc, hist, run, sub>>

\* FstringParser_Finish
AS_Finish ==
    /\ pc = "asm"
    /\ scan.pc = "open"
    /\ \E ok \in BOOLEAN :
          LET node == FstringParser_Finish(scan.state, ok)
          IN  /\ scan' = [scan EXCEPT !.pc = IF node.k = "NULL" THEN "failed" ELSE "finished",
                                      !.node = node]
              /\ err' = IF node.k = "NULL" THEN MemoryError ELSE err
    /\ call' = [NoCall EXCEPT !.op = "FstringParser_Finish"]
    /\ UNCHANGED <<tokens, mark, fill, size, pc, hist, run, sub>>

NextAsm ==
    \/ AS_ConcatAndDel
    \/ AS_EnterFstring
    \/ AS_Expression
    \/ AS_Finish

SpecAsm == InitAsm /\ [][NextAsm]_vars

(***************************************************************************)
(* A whole f-string: string_token calls FstringParser_ConcatFstring at     *)
(* level 0 on the text between the quotes; a format specification is       *)
(* parsed by fstring_parse one level deeper, on the same text.  frames     *)
(* holds the activations of FstringParser_ConcatFstring, the innermost     *)
(* last, each with the locals of the fstring_find_expr it is waiting for.  *)
(***************************************************************************)
\* the texts of the f-strings are all the texts of up to this many characters
MaxField == 4

\* Py_ISSPACE
Space == {" ", "\t", "\n", "\r", "\f"}

\* **str at the offset i: at the end of the text it is the closing quote of
\* the token
At(body, i) == IF i < Len(body) THEN body[i + 1] ELSE "\""

\* while (Py_ISSPACE(**str)) *str += 1
RECURSIVE SkipSpace(_, _)
SkipSpace(body, i) == IF At(body, i) \in Space THEN SkipSpace(body, i + 1) ELSE i

\* one turn of the loop of fstring_find_expr
find_expr_turn(st) ==
    LET ch == st.body[st.str + 1]
    IN  IF ch # "\\" /\ st.quote_char = "" /\ ch \in Openers THEN find_expr_open(st, ch)
        ELSE IF ch # "\\" /\ st.quote_char = "" /\ ch \in Closers
                /\ ~(st.nested_depth = 0 /\ ch = "}")
        THEN find_expr_close(st, ch)
        ELSE find_expr_char(st, ch)

\* the loop of fstring_find_expr, to its end
RECURSIVE find_expr_loop(_)
find_expr_loop(st) ==
    IF st.pc # "scanning" \/ st.str >= Len(st.body) THEN st
    ELSE find_expr_loop(find_expr_turn(st))

\* fstring_find_expr from its entry to the call of fstring_compile_expr as
\* it would be if it allowed a third level
find_expr_scan_three_levels(body, str, recurse_lvl) ==
    LET st0 == [pc |-> "scanning", body |-> body, str |-> str + 1,
                recurse_lvl |-> recurse_lvl, quote_char |-> "", string_type |-> 0,
                nested_depth |-> 0, parenstack |-> [i \in 1..MAXLEVEL |-> "?"],
                acc |-> -1, raised |-> "", last |-> NoStep]
        st == find_expr_loop(st0)
    IN  IF recurse_lvl > 2
        THEN [st0 EXCEPT !.pc = "error", !.str = str,
                         !.raised = "f-string: expressions nested too deeply"]
        ELSE IF st.pc = "error" THEN st
        ELSE IF st.quote_char # ""
        THEN [st EXCEPT !.pc = "error", !.raised = "f-string: unterminated string"]
        ELSE IF st.nested_depth # 0
        THEN [st EXCEPT !.pc = "error", !.raised = "f-string: unmatched '%c'"]
        ELSE IF st.str >= Len(body)
        THEN [st EXCEPT !.pc = "error", !.raised = "f-string: expecting '}'"]
        ELSE [st EXCEPT !.pc = "compile"]

\* fstring_find_expr from its entry, with *str at the '{' at the offset str,
\* to the call of fstring_compile_expr
find_expr_scan(body, str, recurse_lvl) ==
    LET st0 == [pc |-> "scanning", body |-> body, str |-> str + 1,
                recurse_lvl |-> recurse_lvl, quote_char |-> "", string_type |-> 0,
                nested_depth |-> 0, parenstack |-> [i \in 1..MAXLEVEL |-> "?"],
                acc |-> -1, raised |-> "", last |-> NoStep]
        st == find_expr_loop(st0)
    IN  IF recurse_lvl >= 2
        THEN [st0 EXCEPT !.pc = "error", !.str = str,
                         !.raised = "f-string: expressions nested too deeply"]
        ELSE IF st.pc = "error" THEN st
        ELSE IF st.quote_char # ""
        THEN [st EXCEPT !.pc = "error", !.raised = "f-string: unterminated string"]
        ELSE IF st.nested_depth # 0
        THEN [st EXCEPT !.pc = "error", !.raised = "f-string: unmatched '%c'"]
        ELSE IF st.str >= Len(body)
        THEN [st EXCEPT !.pc = "error", !.raised = "f-string: expecting '}'"]
        ELSE [st EXCEPT !.pc = "compile"]

\* int conversion = -1
NoConversion == "-1"

\* what fstring_find_expr found after the expression
NoTrailer ==
    [pc |-> "close", raised |-> "", str |-> 0, expr_text |-> NoLiteral,
     conversion |-> NoConversion, eq_at |-> -1, bang_at |-> -1, colon_at |-> -1]

\* fstring_find_expr after fstring_compile_expr as it would be if the
\* conversion were looked for before the '='
find_expr_trailer_conversion_first(body, expr_start, expr_end) ==
    LET bang == At(body, expr_end) = "!"
        conversion == At(body, expr_end + 1)
        s1 == IF bang THEN expr_end + 2 ELSE expr_end
        eq == At(body, s1) = "="
        s2 == IF eq THEN SkipSpace(body, s1 + 1) ELSE s1
        t == [NoTrailer EXCEPT
                !.expr_text = IF eq THEN [null |-> FALSE, v |-> SubSeq(body, expr_start + 1, s2)]
                              ELSE NoLiteral,
                !.eq_at = IF eq THEN s1 ELSE -1,
                !.bang_at = IF bang THEN expr_end ELSE -1,
                !.conversion = IF bang THEN conversion ELSE NoConversion]
    IN  IF bang /\ expr_end + 1 >= Len(body)
        THEN [t EXCEPT !.pc = "error", !.raised = "f-string: expecting '}'", !.str = expr_end + 1]
        ELSE IF bang /\ conversion \notin {"s", "r", "a"}
        THEN [t EXCEPT !.pc = "error", !.str = s1,
                       !.raised = "f-string: invalid conversion character: expected 's', 'r', or 'a'"]
        ELSE IF s2 >= Len(body)
        THEN [t EXCEPT !.pc = "error", !.raised = "f-string: expecting '}'", !.str = s2]
        ELSE IF body[s2 + 1] = ":"
        THEN IF s2 + 1 >= Len(body)
             THEN [t EXCEPT !.pc = "error", !.raised = "f-string: expecting '}'", !.str = s2 + 1]
             ELSE [t EXCEPT !.pc = "spec", !.str = s2 + 1, !.colon_at = s2]
        ELSE [t EXCEPT !.pc = "close", !.str = s2]

\* fstring_find_expr after fstring_compile_expr, with *str at expr_end: the
\* '=', the conversion and the ':' of the format specification
find_expr_trailer(body, expr_start, expr_end) ==
    LET eq == At(body, expr_end) = "="
        s1 == IF eq THEN SkipSpace(body, expr_end + 1) ELSE expr_end
        bang == At(body, s1) = "!"
        conversion == At(body, s1 + 1)
        s2 == IF bang THEN s1 + 2 ELSE s1
        t == [NoTrailer EXCEPT
                !.expr_text = IF eq THEN [null |-> FALSE, v |-> SubSeq(body, expr_start + 1, s1)]
                              ELSE NoLiteral,
                !.eq_at = IF eq THEN expr_end ELSE -1,
                !.bang_at = IF bang THEN s1 ELSE -1,
                !.conversion = IF bang THEN conversion ELSE NoConversion]
    IN  IF bang /\ s1 + 1 >= Len(body)
        THEN [t EXCEPT !.pc = "error", !.raised = "f-string: expecting '}'", !.str = s1 + 1,
                       !.conversion = NoConversion]
        ELSE IF bang /\ conversion \notin {"s", "r", "a"}
        THEN [t EXCEPT !.pc = "error", !.str = s2,
                       !.raised = "f-string: invalid conversion character: expected 's', 'r', or 'a'"]
        ELSE IF s2 >= Len(body)
        THEN [t EXCEPT !.pc = "error", !.raised = "f-string: expecting '}'", !.str = s2]
        ELSE IF body[s2 + 1] = ":"
        THEN IF s2 + 1 >= Len(body)
             THEN [t EXCEPT !.pc = "error", !.raised = "f-string: expecting '}'", !.str = s2 + 1]
             ELSE [t EXCEPT !.pc = "spec", !.str = s2 + 1, !.colon_at = s2]
        ELSE [t EXCEPT !.pc = "close", !.str = s2]

\* no field was closed yet
NoField ==
    [closed |-> FALSE, recurse_lvl |-> 0, expr_start |-> 0, expr_end |-> 0,
     expr_text |-> NoLiteral, explicit |-> NoConversion, conversion |-> NoConversion,
     has_spec |-> FALSE, eq_at |-> -1, bang_at |-> -1, colon_at |-> -1, close_at |-> -1,
     before |-> NoLiteral, literal |-> NoLiteral]

\* the locals of FstringParser_ConcatFstring at a level, and of the
\* fstring_find_expr it called
Frame(lvl) ==
    [recurse_lvl |-> lvl, state |-> [FstringParser_Init EXCEPT !.fmode = 1],
     literal |-> NoLiteral, expr_start |-> 0, expr_end |-> 0, expr_text |-> NoLiteral,
     conversion |-> NoConversion, format_spec |-> NullNode, eq_at |-> -1, bang_at |-> -1,
     colon_at |-> -1]

\* the characters of the f-strings
FieldAlphabet == {"{", "}", "a", "=", "!", "r", ":", " "}

FieldBodies ==
    SeqsUpTo(FieldAlphabet, MaxField)
        \cup { <<"{", "a", "=", "}">>, <<"u", "{", "a", " ", "=", " ", " ", "}", "b">>,
               <<"{", "a", "=", "!", "s", "}">>, <<"{", "a", "=", ":", "a", "}">>,
               <<"{", "a", "=", "!", "a", ":", "a", "}">>,
               <<"{", "a", "!", "r", "=", "}">>, <<"{", "a", ":", "a", "=", "}">>,
               <<"{", "a", ":", "a", "!", "r", "}">>, <<"{", "a", "!", "x", "}">>,
               <<"{", "a", ":", "{", "b", "}", "}">>,
               <<"{", "a", ":", "{", "b", "=", "}", "}">>,
               <<"{", "a", ":", "{", "b", ":", "c", "}", "}">>,
               <<"{", "a", ":", "{", "b", ":", "{", "c", "}", "}", "}">>,
               <<"a", "{", "{", "{", "a", "=", "}", "}", "}">>,
               <<"\\", "N", "a", "}">>, <<"{", "a", ":", "\\", "N", "a", "}">>,
               <<"{", "a", "}", "\\", "N", "}", "a">>, <<"\\", "N", "{", "a", "}", "}">>,
               <<"\\", "}">>, <<"{", "a", ":", "\\", "}", "}">> }

\* FstringParser_Init(&state) and the call of FstringParser_ConcatFstring
\* with fstr, this_rawmode and the level 0
FieldStart(body, raw) ==
    [pc |-> "loop", body |-> body, raw |-> raw, str |-> 0,
     frames |-> << Frame(0) >>, raised |-> "", node |-> NullNode,
     last |-> NoField, entered |-> -1]

\* string_token has found an f-string: FstringParser_Init and the call of
\* FstringParser_ConcatFstring with the level 0
InitField ==
    /\ tokens = <<StringToken>>
    /\ mark = 1
    /\ fill = 1
    /\ size = 1
    /\ err = NoErr
    /\ pc = "field"
    /\ call = NoCall
    /\ hist = [x \in Positions \X RuleIds |-> NoWrite]
    /\ run = NotStarted
    /\ sub = NotStarted
    /\ \E body \in FieldBodies : scan = FieldStart(body, FALSE)

Top == scan.frames[Len(scan.frames)]

\* a return of -1 from any level: every caller up to string_token returns,
\* only the FstringParser of string_token is left as it is
Fail(sc, msg) ==
    [sc EXCEPT !.pc = "failed", !.raised = msg,
               !.frames = << [sc.frames[1] EXCEPT !.literal = NoLiteral,
                                                  !.expr_text = NoLiteral] >>]

\* the error a failure raised; one without a message raised its own
RaiseField(sc, w) ==
    \E ok \in BOOLEAN :
        err' = IF sc.pc = "failed" /\ sc.raised # ""
               THEN raise_syntax_error(w, sc.raised, ok).w.err
               ELSE w.err

SetTop(sc, f) == [sc EXCEPT !.frames[Len(sc.frames)] = f]

\* the tests after the loop as they would be if only the top level were
\* tested
ConcatFstring_after_loop_top_level_only(body, str, recurse_lvl) ==
    IF recurse_lvl = 0 /\ str < Len(body) - 1
    THEN "f-string: unexpected end of string"
    ELSE ""

\* FstringParser_ConcatFstring after its loop: the message of the error it
\* raises, "" when it returns 0
ConcatFstring_after_loop(body, str, recurse_lvl) ==
    IF recurse_lvl = 0 /\ str < Len(body) - 1
    THEN "f-string: unexpected end of string"
    ELSE IF recurse_lvl # 0 /\ At(body, str) # "}"
    THEN "f-string: expecting '}'"
    ELSE ""

\* a turn of the loop of FstringParser_ConcatFstring up to the call of
\* fstring_find_expr; without an expression, to the end of the turn and, at
\* the end of the text or at a '}', to the return.  Where the assertion of
\* fstring_find_literal is false, a build with assertions stops there.
FF_Literal ==
    /\ pc = "field"
    /\ scan.pc = "loop"
    /\ \E ok \in BOOLEAN, asserts \in BOOLEAN, lvl \in {Top.recurse_lvl} :
       \E r \in { fstring_find_literal(World, scan.body, scan.str, scan.raw, lvl,
                                       [GoodEnv EXCEPT !.alloc_ok = ok]) } :
       \E c \in { IF r.literal.null THEN [state |-> Top.state, rc |-> 0]
                  ELSE FstringParser_ConcatAndDel(Top.state, r.literal.v, ok) } :
       \E moved \in { [scan EXCEPT !.str = r.str] } :
       \E after \in { ConcatFstring_after_loop(scan.body, r.str, lvl) } :
       LET at_end == r.str >= Len(scan.body) \/ scan.body[r.str + 1] = "}"
           sc == IF asserts /\ ~r.assert_ok THEN [moved EXCEPT !.pc = "aborted"]
                 ELSE IF r.rc < 0 THEN Fail(moved, "")
                 ELSE IF r.rc = 0 /\ ~at_end
                 THEN SetTop([moved EXCEPT !.pc = "expr"], [Top EXCEPT !.literal = r.literal])
                 ELSE IF c.rc < 0 THEN Fail(moved, "")
                 ELSE IF r.rc = 1
                 THEN SetTop(moved, [Top EXCEPT !.state = c.state])
                 ELSE IF after # ""
                 THEN Fail(SetTop(moved, [Top EXCEPT !.state = c.state]), after)
                 ELSE SetTop([moved EXCEPT !.pc = "returned"], [Top EXCEPT !.state = c.state])
       IN  \E next \in {sc} :
               /\ scan' = next
               /\ IF next.pc = "aborted" THEN err' = err
                  ELSE IF r.rc < 0 THEN err' = r.w.err
                  ELSE IF ~r.literal.null /\ c.rc < 0 THEN err' = MemoryError
                  ELSE RaiseField(next, r.w)
    /\ call' = [NoCall EXCEPT !.op = "fstring_find_literal_and_expr"]
    /\ UNCHANGED <<tokens, mark, fill, size, pc, hist, run, sub>>

\* fstring_find_expr from its entry to the call of fstring_parse for the
\* format specification or, without one, to the test of the closing '}';
\* fstring_compile_expr yields an expression or NULL
FF_Expr ==
    /\ pc = "field"
    /\ scan.pc = "expr"
    /\ \E compiled \in BOOLEAN, ok \in BOOLEAN, lvl \in {Top.recurse_lvl} :
       \E st \in { find_expr_scan(scan.body, scan.str, lvl) } :
       \E t \in { find_expr_trailer(scan.body, scan.str + 1, st.str) } :
       \E seen \in { [scan EXCEPT !.entered = lvl] } :
       LET text == SubSeq(scan.body, scan.str + 2, st.str)
           f == [Top EXCEPT !.expr_start = scan.str + 1, !.expr_end = st.str,
                            !.expr_text = t.expr_text, !.conversion = t.conversion,
                            !.eq_at = t.eq_at, !.bang_at = t.bang_at,
                            !.colon_at = t.colon_at]
           sc == IF st.pc = "error" THEN Fail([seen EXCEPT !.str = st.str], st.raised)
                 ELSE IF IsBlank(text)
                 THEN Fail([seen EXCEPT !.str = st.str],
                           "f-string: empty expression not allowed")
                 ELSE IF ~compiled THEN Fail([seen EXCEPT !.str = st.str], "invalid syntax")
                 ELSE IF t.eq_at >= 0 /\ ~ok THEN Fail([seen EXCEPT !.str = t.str], "")
                 ELSE IF t.pc = "error" THEN Fail([seen EXCEPT !.str = t.str], t.raised)
                 ELSE IF t.pc = "spec"
                 THEN [SetTop(seen, f) EXCEPT !.pc = "loop", !.str = t.str,
                                              !.frames = Append(@, Frame(lvl + 1))]
                 ELSE [SetTop(seen, f) EXCEPT !.pc = "close", !.str = t.str]
       IN  \E next \in {sc} :
               /\ scan' = next
               /\ IF next.pc = "failed" /\ next.raised = "" THEN err' = MemoryError
                  ELSE RaiseField(next, World)
    /\ call' = [NoCall EXCEPT !.op = "fstring_find_expr"]
    /\ UNCHANGED <<tokens, mark, fill, size, pc, hist, run, sub>>

\* fstring_parse for a format specification, after its call of
\* FstringParser_ConcatFstring returned 0: FstringParser_Finish, and
\* fstring_find_expr has its format_spec
FF_Spec ==
    /\ pc = "field"
    /\ scan.pc = "returned"
    /\ Len(scan.frames) > 1
    /\ \E ok \in BOOLEAN :
       \E node \in { FstringParser_Finish(Top.state, ok) } :
       LET caller == scan.frames[Len(scan.frames) - 1]
           sc == IF node.k = "NULL" THEN Fail(scan, "")
                 ELSE [scan EXCEPT !.pc = "close",
                                   !.frames = Append(SubSeq(@, 1, Len(@) - 2),
                                                     [caller EXCEPT !.format_spec = node])]
       IN  /\ scan' = sc
           /\ err' = IF node.k = "NULL" THEN MemoryError ELSE err
    /\ call' = [NoCall EXCEPT !.op = "fstring_parse"]
    /\ UNCHANGED <<tokens, mark, fill, size, pc, hist, run, sub>>

\* the FormattedValue node
FormattedValue(value, conversion, format_spec) ==
    [k |-> "FormattedValue", v |-> value, kind |-> "", conversion |-> conversion,
     format_spec |-> format_spec]

\* the end of fstring_find_expr: the closing '}', the conversion of the '='
\* form, the FormattedValue; then the rest of the turn of the loop of
\* FstringParser_ConcatFstring: the literal, the text of the '=' form and the
\* expression are added
FF_Close ==
    /\ pc = "field"
    /\ scan.pc = "close"
    /\ \E ok \in BOOLEAN, f \in {Top} :
       \E conversion \in { IF ~f.expr_text.null /\ f.format_spec.k = "NULL"
                               /\ f.conversion = NoConversion
                            THEN "r" ELSE f.conversion } :
       \E expression \in { FormattedValue(SubSeq(scan.body, f.expr_start + 1, f.expr_end),
                                           conversion, f.format_spec) } :
       \E c1 \in { IF f.literal.null THEN [state |-> f.state, rc |-> 0]
                   ELSE FstringParser_ConcatAndDel(f.state, f.literal.v, ok) } :
       \E c2 \in { IF c1.rc < 0 \/ f.expr_text.null THEN c1
                   ELSE FstringParser_ConcatAndDel(c1.state, f.expr_text.v, ok) } :
       \E c3 \in { IF c2.rc < 0 THEN c2
                   ELSE ConcatFstring_expression(c2.state, expression, ok) } :
       LET cleared == [Frame(f.recurse_lvl) EXCEPT !.state = c3.state]
           sc == IF scan.str >= Len(scan.body) \/ scan.body[scan.str + 1] # "}"
                 THEN Fail(scan, "f-string: expecting '}'")
                 ELSE IF ~ok \/ c3.rc < 0 THEN Fail([scan EXCEPT !.str = @ + 1], "")
                 ELSE [SetTop(scan, cleared) EXCEPT
                          !.pc = "loop", !.str = @ + 1,
                          !.last = [closed |-> TRUE, recurse_lvl |-> f.recurse_lvl,
                                    expr_start |-> f.expr_start, expr_end |-> f.expr_end,
                                    expr_text |-> f.expr_text, explicit |-> f.conversion,
                                    conversion |-> conversion,
                                    has_spec |-> f.format_spec.k # "NULL",
                                    eq_at |-> f.eq_at, bang_at |-> f.bang_at,
                                    colon_at |-> f.colon_at, close_at |-> scan.str,
                                    before |-> f.state.last_str, literal |-> f.literal]]
       IN  \E next \in {sc} :
               /\ scan' = next
               /\ IF next.pc = "failed" /\ next.raised = "" THEN err' = MemoryError
                  ELSE RaiseField(next, World)
    /\ call' = [NoCall EXCEPT !.op = "FormattedValue"]
    /\ UNCHANGED <<tokens, mark, fill, size, pc, hist, run, sub>>

\* string_token after its call of FstringParser_ConcatFstring, whose result
\* it does not look at: FstringParser_Finish
FF_Finish ==
    /\ pc = "field"
    /\ \/ scan.pc = "returned" /\ Len(scan.frames) = 1
       \/ scan.pc = "failed"
    /\ \E ok \in BOOLEAN :
       \E node \in { FstringParser_Finish(scan.frames[1].state, ok) } :
           /\ scan' = [scan EXCEPT !.pc = IF scan.pc = "failed" THEN "finished_failed"
                                          ELSE "finished",
                                   !.node = node]
           /\ err' = IF node.k = "NULL" THEN MemoryError ELSE err
    /\ call' = [NoCall EXCEPT !.op = "string_token"]
    /\ UNCHANGED <<tokens, mark, fill, size, pc, hist, run, sub>>

NextField ==
    \/ FF_Literal
    \/ FF_Expr
    \/ FF_Spec
    \/ FF_Close
    \/ FF_Finish

SpecField == InitField /\ [][NextField]_vars

\* the same steps where the program keeps running: string_token is one
\* sequential call, which takes its next step whenever it has one
SpecFieldFair == SpecField /\ WF_vars(NextField)

(***************************************************************************)
(* string_token: the text of a STRING token, with its prefix letters and   *)
(* its quotes, is decoded by parsestr; an f-string is then parsed by the    *)
(* actions of SpecField, any other string becomes a Constant.              *)
(***************************************************************************)
\* s[i] of a NUL-terminated text, i counted from 0
CharAt(s, i) == IF i < Len(s) THEN s[i + 1] ELSE "NUL"

\* PyErr_BadInternalCall()
BadInternalCall == [exc |-> "SystemError", msg |-> "bad internal call", lineno |-> 0, col |-> 0]

\* while (!*bytesmode || !*rawmode) of parsestr, with quote == s[i]
RECURSIVE prefix_loop(_, _, _)
prefix_loop(s, i, m) ==
    LET quote == CharAt(s, i)
    IN  IF m.bytesmode = 1 /\ m.rawmode = 1 THEN [m EXCEPT !.i = i]
        ELSE IF quote \in {"b", "B"} THEN prefix_loop(s, i + 1, [m EXCEPT !.bytesmode = 1])
        ELSE IF quote \in {"u", "U"} THEN prefix_loop(s, i + 1, m)
        ELSE IF quote \in {"r", "R"} THEN prefix_loop(s, i + 1, [m EXCEPT !.rawmode = 1])
        ELSE IF quote \in {"f", "F"} THEN prefix_loop(s, i + 1, [m EXCEPT !.fmode = 1])
        ELSE [m EXCEPT !.i = i]

\* _PyBytes_DecodeEscape from the i-th character: ok is FALSE for a backslash
\* at the end; inv is the character of the first escape it does not know, which
\* it leaves in the bytes with its backslash
RECURSIVE DecodeBytesEscape(_, _)
DecodeBytesEscape(b, i) ==
    IF i > Len(b) THEN [ok |-> TRUE, v |-> <<>>, inv |-> ""]
    ELSE IF b[i] # "\\"
    THEN LET r == DecodeBytesEscape(b, i + 1)
         IN  [r EXCEPT !.v = <<b[i]>> \o @]
    ELSE IF i = Len(b) THEN [ok |-> FALSE, v |-> <<>>, inv |-> ""]
    ELSE LET c == b[i + 1]
             r == DecodeBytesEscape(b, i + 2)
         IN  IF c = "\\" THEN [r EXCEPT !.v = <<"\\">> \o @]
             ELSE IF c = "n" THEN [r EXCEPT !.v = <<"LF">> \o @]
             ELSE [r EXCEPT !.v = <<"\\", c>> \o @, !.inv = c]

\* decode_bytes_with_escapes(p, s, len)
decode_bytes_with_escapes(w, s, env) ==
    LET d == DecodeBytesEscape(s, 1)
        wr == warn_invalid_escape_sequence(w, d.inv, env)
    IN  IF ~env.alloc_ok
        THEN [w |-> [w EXCEPT !.err = MemoryError], ok |-> FALSE, v |-> <<>>, warned |-> <<>>]
        ELSE IF ~d.ok
        THEN [w |-> [w EXCEPT !.err = [exc |-> "ValueError", msg |-> "", lineno |-> 0,
                                       col |-> 0]],
              ok |-> FALSE, v |-> <<>>, warned |-> <<>>]
        ELSE IF d.inv # "" /\ wr.rc < 0
        THEN [w |-> wr.w, ok |-> FALSE, v |-> <<>>, warned |-> <<d.inv>>]
        ELSE [w |-> w, ok |-> TRUE, v |-> d.v,
              warned |-> IF d.inv # "" THEN <<d.inv>> ELSE <<>>]

\* what parsestr leaves when it returns -1
ParseFailed(w, m) ==
    [w |-> w, rc |-> -1, bytesmode |-> m.bytesmode, rawmode |-> m.rawmode,
     result |-> NoLiteral, fstr |-> NoLiteral, warned |-> <<>>]

\* parsestr(p, s, &bytesmode, &rawmode, &result, &fstr, &fstrlen) on the text
\* s of a token
parsestr(w, s, env) ==
    LET m == prefix_loop(s, 0, [i |-> 0, bytesmode |-> 0, rawmode |-> 0, fmode |-> 0])
        quote == CharAt(s, m.i)
        s1 == SubSeq(s, m.i + 2, Len(s))
        len1 == Len(s1) - 1
        triple == len1 >= 4 /\ s1[1] = quote /\ s1[2] = quote
        s2 == IF triple THEN SubSeq(s1, 3, Len(s1)) ELSE s1
        len2 == IF triple THEN len1 - 4 ELSE len1
        body == SubSeq(s2, 1, len2)
        rawmode == IF m.rawmode = 1 \/ \A k \in 1..Len(s2) : s2[k] # "\\" THEN 1 ELSE 0
        u == DecodeUTF8Stateful(w, body, env)
        d == IF m.bytesmode = 1
             THEN IF rawmode = 1
                  THEN [w |-> IF env.alloc_ok THEN w ELSE [w EXCEPT !.err = MemoryError],
                        ok |-> env.alloc_ok, v |-> body, warned |-> <<>>]
                  ELSE decode_bytes_with_escapes(w, body, env)
             ELSE IF rawmode = 1
                  THEN [w |-> u.w, ok |-> u.ok, v |-> u.v, warned |-> <<>>]
                  ELSE decode_unicode_with_escapes(w, body, env)
    IN  IF m.fmode = 1 /\ m.bytesmode = 1
        THEN ParseFailed([w EXCEPT !.err = BadInternalCall], m)
        ELSE IF quote \notin {"'", "\""}
        THEN ParseFailed([w EXCEPT !.err = BadInternalCall], m)
        ELSE IF len1 < 0 \/ s1[len1 + 1] # quote
        THEN ParseFailed([w EXCEPT !.err = BadInternalCall], m)
        ELSE IF triple /\ (s2[len1 - 2] # quote \/ s2[len1 - 3] # quote)
        THEN ParseFailed([w EXCEPT !.err = BadInternalCall], m)
        ELSE IF m.fmode = 1
        THEN [w |-> w, rc |-> 0, bytesmode |-> m.bytesmode, rawmode |-> m.rawmode,
              result |-> NoLiteral, fstr |-> [null |-> FALSE, v |-> body],
              warned |-> <<>>]
        ELSE IF m.bytesmode = 1 /\ \E k \in 1..Len(s2) : s2[k] \in NonAscii
        THEN ParseFailed(raise_syntax_error(w,
                 "bytes can only contain ASCII literal characters.", env.alloc_ok).w,
                 [m EXCEPT !.rawmode = rawmode])
        ELSE [w |-> d.w, rc |-> IF d.ok THEN 0 ELSE -1, bytesmode |-> m.bytesmode,
              rawmode |-> rawmode,
              result |-> IF d.ok THEN [null |-> FALSE, v |-> d.v] ELSE NoLiteral,
              fstr |-> NoLiteral, warned |-> d.warned]

\* the letters before the quote, in the orders a text can have them
StrPrefixes ==
    { <<>>, <<"U">>, <<"B">>, <<"R">>, <<"F">>, <<"R", "b">>, <<"b", "U">>, <<"U", "b">>,
      <<"F", "B">>, <<"r", "b", "u">>, <<"r", "b", "f">>, <<"u", "r", "b">>,
      <<"f", "r", "b">>, <<"u", "r", "f">> }
        \cup { x \in SeqsUpTo({"r", "b", "u", "f"}, 2) : Len(x) = 2 => x[1] # x[2] }

\* the texts between the quotes
StrBodies ==
    { <<>>, <<"x">>, <<"u", "x">>, <<"u", "{", "a", "}">>, <<"{", "a", "=", "}", "u">>,
      <<"\\", "q">>, <<"a", "\\", "q", "\\", "z">>, <<"\\", "n">>, <<"\\", "\\", "\\", "z">>,
      <<"U+E9">>, <<"\\", "U+E9">>, <<"{", "a", ":", "{", "b", "}", "}">> }

StrQuotes == { <<"'">>, <<"\"", "\"", "\"">> }

StrTexts == { x \o q \o b \o q : x \in StrPrefixes, q \in StrQuotes, b \in StrBodies }

\* a token after the STRING token, on the next line
AheadToken ==
    [type |-> NAME, bytes |-> <<"x">>, lineno |-> 2, col_offset |-> 0,
     end_lineno |-> 2, end_col_offset |-> 1, memo |-> <<>>]

\* string_token is entered and expect_token(p, STRING) has returned the
\* token; the token after it is in the buffer when an earlier lookahead or
\* an alternative given up went that far
InitStr ==
    /\ \E text \in StrTexts :
          \/ tokens = << [StringToken EXCEPT !.bytes = text] >>
          \/ tokens = << [StringToken EXCEPT !.bytes = text], AheadToken >>
    /\ mark = 1
    /\ fill = Len(tokens)
    /\ size = Len(tokens)
    /\ err = NoErr
    /\ pc = "string"
    /\ call = NoCall
    /\ hist = [x \in Positions \X RuleIds |-> NoWrite]
    /\ run = NotStarted
    /\ sub = NotStarted
    /\ scan = [pc |-> "parsestr"]

\* the call of parsestr; for an f-string, FstringParser_Init and the entry of
\* FstringParser_ConcatFstring
ST_Parsestr ==
    /\ pc = "string"
    /\ scan.pc = "parsestr"
    /\ \E env \in DecodeEnvs :
       \E r \in { parsestr(World, tokens[1].bytes, env) } :
           /\ err' = r.w.err
           /\ IF r.rc # 0
              THEN /\ scan' = [pc |-> "null", r |-> r, env |-> env]
                   /\ pc' = pc
              ELSE IF ~r.fstr.null
              THEN /\ scan' = FieldStart(r.fstr.v, r.rawmode = 1)
                   /\ pc' = "field"
              ELSE /\ scan' = [pc |-> "decoded", r |-> r, env |-> env]
                   /\ pc' = pc
    /\ call' = [NoCall EXCEPT !.op = "parsestr"]
    /\ UNCHANGED <<tokens, mark, fill, size, hist, run, sub>>

\* the rest of string_token for a string that is not an f-string.  With
\* 'u' first and bytesmode set the assertion fails: the build stops there or,
\* without assertions, goes on.
ST_Constant ==
    /\ pc = "string"
    /\ scan.pc = "decoded"
    /\ \E ok \in BOOLEAN, asserts \in BOOLEAN :
       LET the_str == tokens[1].bytes
           r == scan.r
           kind_unicode == IF CharAt(the_str, 0) = "u" THEN 1 ELSE 0
       IN  IF kind_unicode = 1 /\ r.bytesmode = 1 /\ asserts
           THEN /\ scan' = [scan EXCEPT !.pc = "aborted"]
                /\ err' = err
           ELSE IF ~ok
           THEN /\ scan' = [scan EXCEPT !.pc = "null"]
                /\ err' = MemoryError
           ELSE /\ scan' = [pc |-> "constant", r |-> r, env |-> scan.env,
                            node |-> [k |-> "Constant", v |-> r.result.v,
                                      kind |-> IF r.bytesmode = 0 /\ kind_unicode = 1
                                               THEN "u" ELSE ""]]
                /\ err' = err
    /\ call' = [NoCall EXCEPT !.op = "Constant"]
    /\ UNCHANGED <<tokens, mark, fill, size, pc, hist, run, sub>>

NextStr ==
    \/ ST_Parsestr
    \/ ST_Constant
    \/ FF_Literal
    \/ FF_Expr
    \/ FF_Spec
    \/ FF_Close
    \/ FF_Finish

SpecStr == InitStr /\ [][NextStr]_vars

(***************************************************************************)
(* The first pass of decode_unicode_with_escapes, byte by byte: s is the   *)
(* text, one entry per character, i the number of entries read, p the      *)
(* number of bytes written to buf, size the size of buf.                   *)
(***************************************************************************)
\* the texts of the first pass have up to this many characters
MaxPre == 4

\* the characters outside ASCII, of two, three and four bytes in UTF-8
PreScalars == {"U+E9", "U+20AC", "U+1F600"}

\* the number of bytes of a character in UTF-8
UTF8Width(c) ==
    IF c = "U+E9" THEN 2 ELSE IF c = "U+20AC" THEN 3 ELSE IF c = "U+1F600" THEN 4 ELSE 1

\* len: the number of bytes of a text
RECURSIVE ByteLen(_)
ByteLen(s) == IF s = <<>> THEN 0 ELSE UTF8Width(Head(s)) + ByteLen(Tail(s))

\* decode_utf8(&s, end): the end of the run of bytes with the bit 0x80 that
\* starts after i entries
RECURSIVE RunEnd(_, _)
RunEnd(s, i) == IF i < Len(s) /\ s[i + 1] \in PreScalars THEN RunEnd(s, i + 1) ELSE i

\* a turn of the loop as it would be if the escaped backslash took a byte more
pre_pass_turn_long_escape(st) ==
    LET bs == st.s[st.i + 1] = "\\"
        i1 == IF bs THEN st.i + 1 ELSE st.i
        p1 == IF bs THEN st.p + 1 ELSE st.p
        esc == bs /\ (i1 >= Len(st.s) \/ st.s[i1 + 1] \in PreScalars)
        p2 == IF esc THEN p1 + 6 ELSE p1
        e == RunEnd(st.s, i1)
    IN  IF bs /\ i1 >= Len(st.s)
        THEN [st EXCEPT !.i = i1, !.p = p2, !.pc = "after"]
        ELSE IF st.s[i1 + 1] \in PreScalars
        THEN [st EXCEPT !.i = e, !.p = p2 + 10 * (e - i1), !.asserted = TRUE]
        ELSE [st EXCEPT !.i = i1 + 1, !.p = p2 + 1, !.asserted = FALSE]

\* a turn of the loop while (s < end) of decode_unicode_with_escapes
pre_pass_turn(st) ==
    LET bs == st.s[st.i + 1] = "\\"
        i1 == IF bs THEN st.i + 1 ELSE st.i
        p1 == IF bs THEN st.p + 1 ELSE st.p
        esc == bs /\ (i1 >= Len(st.s) \/ st.s[i1 + 1] \in PreScalars)
        p2 == IF esc THEN p1 + 5 ELSE p1
        e == RunEnd(st.s, i1)
    IN  IF bs /\ i1 >= Len(st.s)
        THEN [st EXCEPT !.i = i1, !.p = p2, !.pc = "after"]
        ELSE IF st.s[i1 + 1] \in PreScalars
        THEN [st EXCEPT !.i = e, !.p = p2 + 10 * (e - i1), !.asserted = TRUE]
        ELSE [st EXCEPT !.i = i1 + 1, !.p = p2 + 1, !.asserted = FALSE]

PreAlphabet == {"a", "\\"} \cup PreScalars

\* decode_unicode_with_escapes has allocated u, of len * 6 bytes
InitPre ==
    /\ tokens = <<StringToken>>
    /\ mark = 1
    /\ fill = 1
    /\ size = 1
    /\ err = NoErr
    /\ pc = "prepass"
    /\ call = NoCall
    /\ hist = [x \in Positions \X RuleIds |-> NoWrite]
    /\ run = NotStarted
    /\ sub = NotStarted
    /\ \E s \in SeqsUpTo(PreAlphabet, MaxPre) :
          scan = [pc |-> "loop", s |-> s, i |-> 0, p |-> 0, size |-> ByteLen(s) * 6,
                  asserted |-> FALSE, len |-> ByteLen(s)]

\* a turn of the loop
PP_Turn ==
    /\ pc = "prepass"
    /\ scan.pc = "loop"
    /\ scan.i < Len(scan.s)
    /\ scan' = pre_pass_turn(scan)
    /\ call' = [NoCall EXCEPT !.op = "turn"]
    /\ UNCHANGED <<tokens, mark, fill, size, err, pc, hist, run, sub>>

\* after the loop: len = p - buf
PP_After ==
    /\ pc = "prepass"
    /\ \/ scan.pc = "after"
       \/ scan.pc = "loop" /\ scan.i >= Len(scan.s)
    /\ scan' = [scan EXCEPT !.pc = "done", !.len = scan.p, !.asserted = FALSE]
    /\ call' = [NoCall EXCEPT !.op = "after"]
    /\ UNCHANGED <<tokens, mark, fill, size, err, pc, hist, run, sub>>

NextPre ==
    \/ PP_Turn
    \/ PP_After

SpecPre == InitPre /\ [][NextPre]_vars

(***************************************************************************)
(* The helpers that rebuild expressions: set_expr_context and              *)
(* construct_assign_target.  An expr_ty is a record: its kind, its         *)
(* expr_context, the address of the node (at, 0 for NULL), the elements of *)
(* a Tuple or List (elts, a sequence or NULL), the value of a Starred,     *)
(* Subscript or Attribute (a sequence of one node), the identifier, the    *)
(* attribute or the slice that the node carries (id), and the position     *)
(* lineno, col_offset, end_lineno, end_col_offset as one value (pos).      *)
(* scan holds the expression given, the node before and after the last     *)
(* call, the next free address of the arena and the calls made.            *)
(***************************************************************************)
\* set_expr_context is applied at most this many times in a row
MaxApply == 2

\* expr_context_ty
Contexts == {"Load", "Store", "Del"}

\* an asdl_seq*: NULL or the sequence of its elements
NullSeq == [null |-> TRUE, v |-> <<>>]
Seq_new(v) == [null |-> FALSE, v |-> v]

\* the expr_ty NULL
NullExpr == [kind |-> "NULL", ctx |-> "", at |-> 0, elts |-> NullSeq, value |-> <<>>,
             id |-> "", pos |-> 0]

\* the first address the arena hands out during the calls
ArenaBase == 1000

\* _Py_Name, _Py_Tuple, _Py_List, _Py_Subscript, _Py_Attribute and
\* _Py_Starred with EXTRA_EXPR(e, e): a new node of the arena at address h
\* with the position of e, or NULL when the arena has no memory or, for a
\* Starred, Subscript or Attribute, when the value is NULL
Py_Node(h, kind, ctx, elts, value, id, e, ok) ==
    IF ~ok \/ (value # <<>> /\ value[1].kind = "NULL")
    THEN NullExpr
    ELSE [kind |-> kind, ctx |-> ctx, at |-> h, elts |-> elts, value |-> value,
          id |-> id, pos |-> e.pos]

\* the number of nodes a call allocated: the next free address after it
AfterNode(h, node) == IF node.kind = "NULL" THEN h ELSE h + 1

\* _set_seq_context as it would be if it copied the elements as they are
set_seq_context_copy(h, seq, ctx, ok) ==
    IF seq.null \/ ~ok THEN [seq |-> NullSeq, h |-> h]
    ELSE [seq |-> Seq_new(seq.v), h |-> h]

RECURSIVE set_expr_context(_, _, _, _)
RECURSIVE set_seq_loop(_, _, _, _, _)
\* the loop of _set_seq_context from element i on: done holds new_seq so far
set_seq_loop(h, v, done, ctx, ok) ==
    IF Len(done) >= Len(v) THEN [seq |-> Seq_new(done), h |-> h]
    ELSE LET r == set_expr_context(h, v[Len(done) + 1], ctx, ok)
         IN  set_seq_loop(r.h, v, Append(done, r.node), ctx, ok)

\* _set_seq_context(p, seq, ctx): NULL for NULL and when the arena has no
\* memory, else a new sequence with every element rewritten
set_seq_context(h, seq, ctx, ok) ==
    IF seq.null \/ ~ok THEN [seq |-> NullSeq, h |-> h]
    ELSE set_seq_loop(h, seq.v, <<>>, ctx, ok)

\* set_expr_context(p, expr, ctx) with _set_name_context, _set_tuple_context,
\* _set_list_context, _set_subscript_context, _set_attribute_context and
\* _set_starred_context: the arguments of the constructor are evaluated
\* before the node is allocated
set_expr_context(h, expr, ctx, ok) ==
    IF expr.kind = "NULL" THEN [node |-> NullExpr, h |-> h]
    ELSE IF expr.kind = "Name"
    THEN LET n == Py_Node(h, "Name", ctx, NullSeq, <<>>, expr.id, expr, ok)
         IN  [node |-> n, h |-> AfterNode(h, n)]
    ELSE IF expr.kind \in {"Tuple", "List"}
    THEN LET s == set_seq_context(h, expr.elts, ctx, ok)
             n == Py_Node(s.h, expr.kind, ctx, s.seq, <<>>, "", expr, ok)
         IN  [node |-> n, h |-> AfterNode(s.h, n)]
    ELSE IF expr.kind \in {"Subscript", "Attribute"}
    THEN LET n == Py_Node(h, expr.kind, ctx, NullSeq, expr.value, expr.id, expr, ok)
         IN  [node |-> n, h |-> AfterNode(h, n)]
    ELSE IF expr.kind = "Starred"
    THEN LET v == set_expr_context(h, expr.value[1], ctx, ok)
             n == Py_Node(v.h, "Starred", ctx, NullSeq, <<v.node>>, "", expr, ok)
         IN  [node |-> n, h |-> AfterNode(v.h, n)]
    ELSE [node |-> expr, h |-> h]

\* PyErr_Format(PyExc_SyntaxError, ...): no location is recorded
SyntaxErrorOf(msg) == [exc |-> "SyntaxError", msg |-> msg, lineno |-> 0, col |-> 0]

\* the dummy Name that construct_assign_target returns with the error:
\* new_identifier(p, "") and _Py_Name(id, Store, EXTRA_EXPR(node, node));
\* without memory the identifier is NULL and _Py_Name, given no identifier,
\* replaces the error pending by its own
DummyTarget(h, node, msg, ok) ==
    IF ok
    THEN [node |-> Py_Node(h, "Name", "Store", NullSeq, <<>>, "", node, TRUE),
          h |-> h + 1, err |-> SyntaxErrorOf(msg)]
    ELSE [node |-> NullExpr, h |-> h,
          err |-> [exc |-> "ValueError", msg |-> "field id is required for Name",
                   lineno |-> 0, col |-> 0]]

\* construct_assign_target as it would be if a tuple of any length were
\* unwrapped to its first element
construct_assign_target_first_of_any(h, node, e, ok) ==
    IF node.kind = "NULL" THEN [node |-> NullExpr, h |-> h, err |-> e]
    ELSE IF node.kind = "Tuple" /\ Len(node.elts.v) >= 1
    THEN [node |-> node.elts.v[1], h |-> h, err |-> e]
    ELSE IF node.kind \in {"Tuple", "List"}
    THEN DummyTarget(h, node, "Only single target (not list) can be annotated", ok)
    ELSE [node |-> node, h |-> h, err |-> e]

\* construct_assign_target(p, node); e is the error indicator at the call
construct_assign_target(h, node, e, ok) ==
    IF node.kind = "NULL" THEN [node |-> NullExpr, h |-> h, err |-> e]
    ELSE IF node.kind = "Tuple"
    THEN IF Len(node.elts.v) # 1
         THEN DummyTarget(h, node, "Only single target (not tuple) can be annotated", ok)
         ELSE [node |-> node.elts.v[1], h |-> h, err |-> e]
    ELSE IF node.kind = "List"
    THEN DummyTarget(h, node, "Only single target (not list) can be annotated", ok)
    ELSE [node |-> node, h |-> h, err |-> e]

\* the expressions given to the helpers: a node at address a has its
\* children at the addresses 10 * a + i and its position is its address
Leaf(kind, ctx, a) ==
    [kind |-> kind, ctx |-> ctx, at |-> a, elts |-> NullSeq, value |-> <<>>,
     id |-> IF kind = "Name" THEN "x" ELSE "", pos |-> a]
Holder(kind, ctx, a, elts) ==
    [kind |-> kind, ctx |-> ctx, at |-> a, elts |-> Seq_new(elts), value |-> <<>>,
     id |-> "", pos |-> a]
Wrapper(kind, ctx, a, value) ==
    [kind |-> kind, ctx |-> ctx, at |-> a, elts |-> NullSeq, value |-> <<value>>,
     id |-> IF kind = "Attribute" THEN "f" ELSE IF kind = "Subscript" THEN "slice" ELSE "",
     pos |-> a]

\* names, constants and calls: the nodes without children of the model
Leaves(a) ==
    { Leaf("Name", c, a) : c \in {"Load", "Store"} }
        \cup { Leaf("Constant", "", a), Leaf("Call", "", a) }

\* a node over leaves
Shallow(a) ==
    Leaves(a)
        \cup { Holder(k, "Load", a, <<>>) : k \in {"Tuple", "List"} }
        \cup { Holder(k, "Load", a, <<x>>) : k \in {"Tuple", "List"}, x \in Leaves(10 * a + 1) }
        \cup { Holder(k, "Load", a, <<x, y>>) :
                   k \in {"Tuple", "List"}, x \in Leaves(10 * a + 1), y \in Leaves(10 * a + 2) }
        \cup { Wrapper(k, "Load", a, x) :
                   k \in {"Starred", "Subscript", "Attribute"}, x \in Leaves(10 * a + 1) }

\* a node over nodes over leaves
Expressions ==
    Shallow(1)
        \cup { Holder(k, c, 1, <<x>>) :
                   k \in {"Tuple", "List"}, c \in {"Load", "Del"}, x \in Shallow(11) }
        \cup { Holder("Tuple", "Load", 1, <<x, y>>) :
                   x \in Leaves(11), y \in Shallow(12) }
        \cup { Wrapper(k, "Load", 1, x) :
                   k \in {"Starred", "Subscript", "Attribute"}, x \in Shallow(11) }
        \cup { NullExpr }

\* an expression has been built by a rule of the grammar
InitCtx ==
    /\ tokens = <<ZeroToken>>
    /\ mark = 0
    /\ fill = 0
    /\ size = 1
    /\ err = NoErr
    /\ pc = "helper"
    /\ call = NoCall
    /\ hist = [x \in Positions \X RuleIds |-> NoWrite]
    /\ run = NotStarted
    /\ sub = NotStarted
    /\ \E e \in Expressions :
          scan = [pc |-> "built", e |-> e, prev |-> e, cur |-> e, h |-> ArenaBase,
                  applied |-> <<>>]

\* a rule calls set_expr_context on the node it has
CX_SetContext ==
    /\ pc = "helper"
    /\ scan.pc \in {"built", "set"}
    /\ Len(scan.applied) < MaxApply
    /\ \E ctx \in Contexts, ok \in BOOLEAN :
       \E r \in { set_expr_context(scan.h, scan.cur, ctx, ok) } :
          scan' = [scan EXCEPT !.pc = "set", !.prev = scan.cur, !.cur = r.node, !.h = r.h,
                               !.applied = Append(@, [ctx |-> ctx, ok |-> ok])]
    /\ call' = [NoCall EXCEPT !.op = "set_expr_context"]
    /\ UNCHANGED <<tokens, mark, fill, size, err, pc, hist, run, sub>>

\* a rule for an annotated assignment calls construct_assign_target on the
\* node it has
CX_AssignTarget ==
    /\ pc = "helper"
    /\ scan.pc \in {"built", "set"}
    /\ \E ok \in BOOLEAN :
       \E r \in { construct_assign_target(scan.h, scan.cur, err, ok) } :
          /\ scan' = [scan EXCEPT !.pc = "target", !.prev = scan.cur, !.cur = r.node,
                                  !.h = r.h,
                                  !.applied = Append(@, [ctx |-> "", ok |-> ok])]
          /\ err' = r.err
    /\ call' = [NoCall EXCEPT !.op = "construct_assign_target"]
    /\ UNCHANGED <<tokens, mark, fill, size, pc, hist, run, sub>>

NextCtx ==
    \/ CX_SetContext
    \/ CX_AssignTarget

SpecCtx == InitCtx /\ [][NextCtx]_vars

(***************************************************************************)
(* make_arguments.  An arg_ty is a number (0 for NULL), a default value an *)
(* expression, also a number (0 for NULL: a keyword-only parameter without *)
(* default); a NameDefaultPair is a record of the two; an asdl_seq* is     *)
(* NULL or a sequence; a SlashWithDefault* or StarEtc* is a record with    *)
(* the field null.                                                         *)
(***************************************************************************)
\* every sequence of parameters given to make_arguments has at most this
\* many elements
MaxParams == 2

\* NameDefaultPair
Pair(arg, value) == [arg |-> arg, value |-> value]

\* _get_names(p, names_with_defaults); asdl_seq_LEN of NULL is 0
get_names(names_with_defaults, ok) ==
    IF ~ok THEN NullSeq
    ELSE Seq_new([i \in 1 .. Len(names_with_defaults.v) |-> names_with_defaults.v[i].arg])

\* _get_defaults(p, names_with_defaults)
get_defaults(names_with_defaults, ok) ==
    IF ~ok THEN NullSeq
    ELSE Seq_new([i \in 1 .. Len(names_with_defaults.v) |-> names_with_defaults.v[i].value])

\* _join_seqs(p, a, b)
join_seqs(a, b, ok) ==
    IF ~ok THEN NullSeq ELSE Seq_new(a.v \o b.v)

\* the SlashWithDefault* and StarEtc* NULL, and the arguments_ty NULL
NullSlash == [null |-> TRUE, plain_names |-> NullSeq, names_with_defaults |-> NullSeq]
NullStar == [null |-> TRUE, vararg |-> 0, kwonlyargs |-> NullSeq, kwarg |-> 0]
NullArguments ==
    [null |-> TRUE, posonlyargs |-> NullSeq, args |-> NullSeq, vararg |-> 0,
     kwonlyargs |-> NullSeq, kw_defaults |-> NullSeq, kwarg |-> 0, defaults |-> NullSeq]

\* the positional-only parameters of make_arguments
make_posonlyargs(slash_without_default, slash_with_default, ok) ==
    IF ~slash_without_default.null THEN slash_without_default
    ELSE IF ~slash_with_default.null
    THEN LET slash_with_default_names == get_names(slash_with_default.names_with_defaults, ok)
         IN  IF slash_with_default_names.null THEN NullSeq
             ELSE join_seqs(slash_with_default.plain_names, slash_with_default_names, ok)
    ELSE IF ok THEN Seq_new(<<>>) ELSE NullSeq

\* the positional parameters of make_arguments
make_posargs(plain_names, names_with_default, ok) ==
    IF ~plain_names.null /\ ~names_with_default.null
    THEN LET names_with_default_names == get_names(names_with_default, ok)
         IN  IF names_with_default_names.null THEN NullSeq
             ELSE join_seqs(plain_names, names_with_default_names, ok)
    ELSE IF plain_names.null /\ ~names_with_default.null
    THEN get_names(names_with_default, ok)
    ELSE IF ~plain_names.null /\ names_with_default.null
    THEN plain_names
    ELSE IF ok THEN Seq_new(<<>>) ELSE NullSeq

\* the defaults of the positional parameters as they would be if only the
\* defaults after the slash were taken
make_posdefaults_after_slash_only(slash_with_default, names_with_default, ok) ==
    IF ~names_with_default.null THEN get_defaults(names_with_default, ok)
    ELSE IF ok THEN Seq_new(<<>>) ELSE NullSeq

\* the defaults of the positional parameters of make_arguments
make_posdefaults(slash_with_default, names_with_default, ok) ==
    IF ~slash_with_default.null /\ ~names_with_default.null
    THEN LET slash_with_default_values == get_defaults(slash_with_default.names_with_defaults, ok)
             names_with_default_values == get_defaults(names_with_default, ok)
         IN  IF slash_with_default_values.null \/ names_with_default_values.null THEN NullSeq
             ELSE join_seqs(slash_with_default_values, names_with_default_values, ok)
    ELSE IF slash_with_default.null /\ ~names_with_default.null
    THEN get_defaults(names_with_default, ok)
    ELSE IF ~slash_with_default.null /\ names_with_default.null
    THEN get_defaults(slash_with_default.names_with_defaults, ok)
    ELSE IF ok THEN Seq_new(<<>>) ELSE NullSeq

\* make_arguments(p, slash_without_default, slash_with_default, plain_names,
\* names_with_default, star_etc); ok: the arena has memory
make_arguments(slash_without_default, slash_with_default, plain_names, names_with_default, star_etc, ok) ==
    LET posonlyargs == make_posonlyargs(slash_without_default, slash_with_default, ok)
        posargs == make_posargs(plain_names, names_with_default, ok)
        posdefaults == make_posdefaults(slash_with_default, names_with_default, ok)
        has_kwonly == ~star_etc.null /\ ~star_etc.kwonlyargs.null
        vararg == IF ~star_etc.null /\ star_etc.vararg # 0 THEN star_etc.vararg ELSE 0
        kwonlyargs == IF has_kwonly THEN get_names(star_etc.kwonlyargs, ok)
                      ELSE IF ok THEN Seq_new(<<>>) ELSE NullSeq
        kwdefaults == IF has_kwonly THEN get_defaults(star_etc.kwonlyargs, ok)
                      ELSE IF ok THEN Seq_new(<<>>) ELSE NullSeq
        kwarg == IF ~star_etc.null /\ star_etc.kwarg # 0 THEN star_etc.kwarg ELSE 0
    IN  IF posonlyargs.null \/ posargs.null \/ posdefaults.null
           \/ kwonlyargs.null \/ kwdefaults.null \/ ~ok
        THEN NullArguments
        ELSE [null |-> FALSE, posonlyargs |-> posonlyargs, args |-> posargs,
              vararg |-> vararg, kwonlyargs |-> kwonlyargs, kw_defaults |-> kwdefaults,
              kwarg |-> kwarg, defaults |-> posdefaults]

\* the parameters of a slot of the parameter list: the k-th has the number
\* 10 * slot + k, its default the number 100 + 10 * slot + k
PlainSeqs(slot) ==
    { Seq_new([i \in 1 .. n |-> 10 * slot + i]) : n \in 0 .. MaxParams }
DefaultSeqs(slot) ==
    { Seq_new([i \in 1 .. n |-> Pair(10 * slot + i, 100 + 10 * slot + i)]) :
          n \in 0 .. MaxParams }
\* keyword-only parameters: the first has no default when there are several
KwonlySeqs(slot) ==
    { Seq_new([i \in 1 .. n |-> Pair(10 * slot + i,
                                     IF i = 1 /\ n > 1 THEN 0 ELSE 100 + 10 * slot + i)]) :
          n \in 0 .. MaxParams }

\* what the rules for a parameter list hand to make_arguments: at most one of
\* the two forms of the part before the slash
ParameterLists ==
    { [slash_without_default |-> a, slash_with_default |-> b, plain_names |-> c,
       names_with_default |-> d, star_etc |-> e] :
        a \in {NullSeq} \cup PlainSeqs(1),
        b \in {NullSlash}
                \cup { [null |-> FALSE, plain_names |-> x, names_with_defaults |-> y] :
                           x \in {NullSeq} \cup PlainSeqs(1), y \in DefaultSeqs(2) },
        c \in {NullSeq} \cup PlainSeqs(3),
        d \in {NullSeq} \cup DefaultSeqs(4),
        e \in {NullStar}
                \cup { [null |-> FALSE, vararg |-> v, kwonlyargs |-> k, kwarg |-> w] :
                           v \in {0, 51}, k \in {NullSeq} \cup KwonlySeqs(6), w \in {0, 71} } }

InitArgs ==
    /\ tokens = <<ZeroToken>>
    /\ mark = 0
    /\ fill = 0
    /\ size = 1
    /\ err = NoErr
    /\ pc = "arguments"
    /\ call = NoCall
    /\ hist = [x \in Positions \X RuleIds |-> NoWrite]
    /\ run = NotStarted
    /\ sub = NotStarted
    /\ \E given \in ParameterLists :
          /\ given.slash_without_default.null \/ given.slash_with_default.null
          /\ scan = [pc |-> "parsed", given |-> given, ok |-> TRUE, result |-> NullArguments]

\* the rule for a parameter list calls make_arguments
AR_MakeArguments ==
    /\ pc = "arguments"
    /\ scan.pc = "parsed"
    /\ \E ok \in BOOLEAN :
       \E r \in { make_arguments(scan.given.slash_without_default,
                                 scan.given.slash_with_default, scan.given.plain_names,
                                 scan.given.names_with_default, scan.given.star_etc, ok) } :
          scan' = [scan EXCEPT !.pc = "made", !.ok = ok, !.result = r]
    /\ call' = [NoCall EXCEPT !.op = "make_arguments"]
    /\ UNCHANGED <<tokens, mark, fill, size, err, pc, hist, run, sub>>

NextArgs == AR_MakeArguments

SpecArgs == InitArgs /\ [][NextArgs]_vars

(***************************************************************************)
(* get_last_nonnwhitespace_token over a token buffer filled by earlier     *)
(* calls: the tokens at the indices 0 .. fill - 1, the mark anywhere       *)
(* from 0 to fill.                                                         *)
(***************************************************************************)
\* the buffer holds at most this many tokens
MaxTokens == 3

\* token kinds of the tokenizer (token.h)
ENDMARKER == 0
NEWLINE == 4
DEDENT == 6

\* the loop for (m = p->mark - 1; m >= 0; m--): token holds the last token
\* read (the value returned once the loop is left)
RECURSIVE last_token_loop(_, _, _)
last_token_loop(w, m, token) ==
    IF m < 0 THEN token
    ELSE LET t == TokenAt(w, m)
         IN  IF t.type # ENDMARKER /\ (t.type < NEWLINE \/ t.type > DEDENT)
             THEN TokRet(m)
             ELSE last_token_loop(w, m - 1, TokRet(m))

\* get_last_nonnwhitespace_token(p)
get_last_nonnwhitespace_token(w) == last_token_loop(w, w.mark - 1, NullRet)

\* the kinds of tokens in the buffer: ENDMARKER, NAME, NEWLINE, INDENT, DEDENT
\* and the kind after DEDENT
BufferKinds == {ENDMARKER, NAME} \cup (NEWLINE .. DEDENT + 1)

\* the parser holds no token yet
InitLast ==
    /\ tokens = <<ZeroToken>>
    /\ mark = 0
    /\ fill = 0
    /\ size = 1
    /\ err = NoErr
    /\ pc = "last"
    /\ call = NoCall
    /\ hist = [x \in Positions \X RuleIds |-> NoWrite]
    /\ OthersIdle

\* expect_token takes a token of the kind it expects, from the tokenizer
\* when the buffer has none at the mark: the array grows as in fill_token
LT_Expect ==
    /\ pc = "last"
    /\ mark < MaxTokens
    /\ \E type \in BufferKinds :
          /\ mark < fill => TokenAt(World, mark).type = type
          /\ tokens' = IF mark < fill THEN tokens
                       ELSE [i \in 1 .. (IF fill = size THEN 2 * size ELSE size) |->
                               IF i <= fill THEN tokens[i]
                               ELSE IF i = fill + 1
                               THEN [ZeroToken EXCEPT !.type = type, !.lineno = 1,
                                                      !.end_lineno = 1]
                               ELSE ZeroToken]
          /\ size' = IF mark < fill \/ fill < size THEN size ELSE 2 * size
          /\ fill' = IF mark < fill THEN fill ELSE fill + 1
          /\ mark' = mark + 1
          /\ call' = [NoCall EXCEPT !.op = "expect_token", !.ret = TokRet(mark)]
    /\ UNCHANGED <<err, pc, hist>>
    /\ UNCHANGED others

\* a rule that fails resets the mark: p->mark = mark
LT_Reset ==
    /\ pc = "last"
    /\ \E m \in 0 .. (mark - 1) :
          /\ mark' = m
          /\ call' = [NoCall EXCEPT !.op = "reset"]
    /\ UNCHANGED <<tokens, fill, size, err, pc, hist>>
    /\ UNCHANGED others

\* a call of get_last_nonnwhitespace_token
LT_LastToken ==
    /\ pc = "last"
    /\ call' = [NoCall EXCEPT !.op = "get_last_nonnwhitespace_token",
                              !.ret = get_last_nonnwhitespace_token(World)]
    /\ UNCHANGED <<tokens, mark, fill, size, err, pc, hist>>
    /\ UNCHANGED others

NextLast ==
    \/ LT_Expect
    \/ LT_Reset
    \/ LT_LastToken

SpecLast == InitLast /\ [][NextLast]_vars

(***************************************************************************)
(* CONSTRUCTOR and its cache across calls of run_parser in one process.    *)
(* An arena is the number of the parse that created it (0 for none); a     *)
(* node is the arena it was allocated in and its place in it (arena 0: the *)
(* node NULL).  run holds the parse in progress, the arenas freed so far,  *)
(* the static variable cache of CONSTRUCTOR and the values CONSTRUCTOR     *)
(* returned during the parse in progress.                                  *)
(***************************************************************************)
\* run_parser is called at most this many times
MaxParses == 3
\* CONSTRUCTOR is called at most this many times in a parse
MaxDummies == 2

NullDummy == [arena |-> 0, n |-> 0]

\* CONSTRUCTOR(p, ...): cache is the static variable, arena is p->arena with
\* nodes nodes allocated; ok.id: _create_dummy_identifier succeeds, ok.name:
\* Name(...) succeeds
CONSTRUCTOR(cache, arena, nodes, ok) ==
    IF cache # NullDummy THEN [ret |-> cache, cache |-> cache, nodes |-> nodes]
    ELSE IF ~ok.id THEN [ret |-> NullDummy, cache |-> cache, nodes |-> nodes]
    ELSE LET name == IF ok.name THEN [arena |-> arena, n |-> nodes + 1] ELSE NullDummy
         IN  [ret |-> name, cache |-> name, nodes |-> IF ok.name THEN nodes + 1 ELSE nodes]

\* the process has started: cache is NULL and run_parser has not been called
InitCache ==
    /\ tokens = <<ZeroToken>>
    /\ mark = 0
    /\ fill = 0
    /\ size = 1
    /\ err = NoErr
    /\ pc = "process"
    /\ call = NoCall
    /\ hist = [x \in Positions \X RuleIds |-> NoWrite]
    /\ sub = NotStarted
    /\ scan = NotStarted
    /\ run = [pc |-> "idle", parses |-> 0, arena |-> 0, nodes |-> 0, freed |-> {},
              cache |-> NullDummy, returned |-> <<>>]

\* run_parser from its entry to the call of the start rule: p->arena is a
\* new arena; without memory for it run_parser goes to exit
DC_RunParser ==
    /\ pc = "process"
    /\ run.pc = "idle"
    /\ run.parses < MaxParses
    /\ \E ok \in BOOLEAN :
          run' = [run EXCEPT !.pc = IF ok THEN "rule" ELSE "exit",
                             !.parses = @ + 1,
                             !.arena = IF ok THEN run.parses + 1 ELSE 0,
                             !.nodes = 0,
                             !.returned = <<>>]
    /\ call' = [NoCall EXCEPT !.op = "run_parser"]
    /\ UNCHANGED <<tokens, mark, fill, size, err, pc, hist, sub, scan>>

\* a rule calls CONSTRUCTOR
DC_Constructor ==
    /\ pc = "process"
    /\ run.pc = "rule"
    /\ Len(run.returned) < MaxDummies
    /\ \E id_ok \in BOOLEAN, name_ok \in BOOLEAN :
       \E r \in { CONSTRUCTOR(run.cache, run.arena, run.nodes,
                              [id |-> id_ok, name |-> name_ok]) } :
          run' = [run EXCEPT !.cache = r.cache, !.nodes = r.nodes,
                             !.returned = Append(@, r.ret)]
    /\ call' = [NoCall EXCEPT !.op = "CONSTRUCTOR"]
    /\ UNCHANGED <<tokens, mark, fill, size, err, pc, hist, sub, scan>>

\* a rule allocates a node of its own in the arena
DC_Node ==
    /\ pc = "process"
    /\ run.pc = "rule"
    /\ run.nodes < MaxDummies
    /\ run' = [run EXCEPT !.nodes = @ + 1]
    /\ call' = [NoCall EXCEPT !.op = "node"]
    /\ UNCHANGED <<tokens, mark, fill, size, err, pc, hist, sub, scan>>

\* the start rule returns
DC_RuleReturns ==
    /\ pc = "process"
    /\ run.pc = "rule"
    /\ run' = [run EXCEPT !.pc = "exit"]
    /\ call' = [NoCall EXCEPT !.op = "start_rule"]
    /\ UNCHANGED <<tokens, mark, fill, size, err, pc, hist, sub, scan>>

\* run_parser at exit: PyArena_Free(p->arena) when there is an arena
DC_Exit ==
    /\ pc = "process"
    /\ run.pc = "exit"
    /\ run' = [run EXCEPT !.pc = "idle",
                          !.freed = IF run.arena # 0 THEN @ \cup {run.arena} ELSE @,
                          !.arena = 0]
    /\ call' = [NoCall EXCEPT !.op = "exit"]
    /\ UNCHANGED <<tokens, mark, fill, size, err, pc, hist, sub, scan>>

NextCache ==
    \/ DC_RunParser
    \/ DC_Constructor
    \/ DC_Node
    \/ DC_RuleReturns
    \/ DC_Exit

SpecCache == InitCache /\ [][NextCache]_vars

(***************************************************************************)
(* The claims.  A contract of a function is stated over every call the     *)
(* function can be given in a reachable state of the parser: the function  *)
(* is applied to the state and its outcome compared with what the claim    *)
(* says it is.                                                             *)
(***************************************************************************)
Chain(w, p) == w.tokens[p + 1].memo

HasEntry(chain, r) == \E k \in 1..Len(chain) : chain[k].type = r

Count(chain, r) == Cardinality({k \in 1..Len(chain) : chain[k].type = r})

\* the entry of rule r nearest the head of the chain
HeadEntry(chain, r) ==
    chain[CHOOSE k \in 1..Len(chain) :
              /\ chain[k].type = r
              /\ \A j \in 1..(k - 1) : chain[j].type # r]

\* the tokenizer fails the call made from w: it is asked and answers ERRORTOKEN
LexFails(w, lx) == w.mark = w.fill /\ lx.type = ERRORTOKEN

\* the parser w with its mark put back to m
Rewound(w, m) == [w EXCEPT !.mark = m]

\* C1: expect_token(kind), entered with mark <= fill: if the token at index
\* mark (materialized by the call when mark = fill) has the kind asked for,
\* the call returns that token and mark grows by exactly 1; if the kind
\* differs or the tokenizer fails, it returns NULL and mark is unchanged.
\* The tokenizer is asked once when mark = fill and not at all otherwise, and
\* then the buffer is left as it was.
C1_ExpectToken ==
    pc = "rule" =>
        \A type \in ExpectKinds, lx \in LexResults :
            LET r == expect_token(World, type, lx)
            IN  /\ mark <= fill
                /\ r.lex = IF mark = fill THEN 1 ELSE 0
                /\ mark < fill => r.w.tokens = tokens /\ r.w.fill = fill
                /\ IF ~LexFails(World, lx) /\ r.w.tokens[mark + 1].type = type
                   THEN r.ret = TokRet(mark) /\ r.w.mark = mark + 1
                   ELSE r.ret = NullRet /\ r.w.mark = mark

\* expect_token has just asked the tokenizer for the token at mark, found the
\* kind it expected and consumed it
C1_Witness ==
    /\ call.op = "expect_token"
    /\ call.lex = 1
    /\ call.ret = TokRet(mark - 1)
    /\ mark = fill

\* C2: keyword_token(text): when it returns NULL (the next token is no NAME,
\* or is a NAME of other bytes, or cannot be materialized) mark is what it
\* was before the call; it returns the token, with mark advanced by exactly
\* 1, exactly when the token at mark is a NAME whose bytes are the text.
C2_KeywordToken ==
    pc = "rule" =>
        \A val \in KeywordTexts, lx \in LexResults :
            LET r == keyword_token(World, val, lx)
            IN  IF /\ ~LexFails(World, lx)
                   /\ r.w.tokens[mark + 1].type = NAME
                   /\ r.w.tokens[mark + 1].bytes = val
                THEN r.ret = TokRet(mark) /\ r.w.mark = mark + 1
                ELSE r.ret = NullRet /\ r.w.mark = mark

\* keyword_token has just materialized a NAME of other bytes than its text,
\* returned NULL and put the mark back on it
C2_Witness ==
    /\ call.op = "keyword_token"
    /\ call.lex = 1
    /\ call.ret = NullRet
    /\ err = NoErr
    /\ mark = fill - 1
    /\ tokens[mark + 1].type = NAME

\* what a lookahead of any arity owes: inner is the outcome of the function
\* it invoked, r its own
LookaheadOwes(positive, inner, r) ==
    /\ r.w.mark = mark
    /\ r.ret = IntRet(BoolInt((inner.ret # NullRet) <=> (positive = 1)))
    /\ r.w.fill >= fill
    /\ r.w.fill = inner.w.fill
    /\ r.w.tokens = inner.w.tokens

\* C3: for each of lookahead, lookahead_with_string and lookahead_with_int:
\* after the call mark is what it was before, whatever the invoked function
\* did to it (consumed a token, took a memo hit); the value returned is 1
\* exactly when (the result of the function is not NULL) == positive; the
\* tokens the function materialized stay materialized.
C3_Lookahead ==
    pc = "rule" =>
        \A positive \in {0, 1}, lx \in LexResults :
            /\ \A func \in RuleFuncs, ok \in BOOLEAN :
                  LookaheadOwes(positive, CallFunc(func, World, lx, ok),
                                lookahead(positive, func, World, lx, ok))
            /\ \A arg \in KeywordTexts :
                  LookaheadOwes(positive, keyword_token(World, arg, lx),
                                lookahead_with_string(positive, World, arg, lx))
            /\ \A arg \in ExpectKinds :
                  LookaheadOwes(positive, expect_token(World, arg, lx),
                                lookahead_with_int(positive, World, arg, lx))

\* a positive lookahead of name_token has just returned 1: name_token had the
\* token at mark materialized and consumed it, and the mark is back on it
C3_Witness ==
    /\ call.op = "lookahead"
    /\ call.a = <<1, [f |-> "name_token", type |-> 0]>>
    /\ call.ret = IntRet(1)
    /\ call.lex = 1
    /\ mark = fill - 1
    /\ tokens[mark + 1].type = NAME

\* C4: is_memoized(rule, out) at mark m: with an entry of the rule in the
\* chain of token m it returns 1, sets mark to the end position stored in
\* that entry and writes the node stored in it to out; with none it returns 0
\* and leaves mark and out alone; when the tokenizer fails to materialize
\* token m it returns -1 with mark unchanged.  No memo entry is added, removed
\* or changed, and the same call made again with the mark rewound to m gives
\* the same answer, node and end position.
C4_IsMemoized ==
    pc = "rule" =>
        \A type \in RuleIds, pres \in NodeIds, lx \in LexResults :
            LET r == is_memoized(World, type, pres, lx)
            IN  /\ \A i \in 1..size : r.w.tokens[i].memo = tokens[i].memo
                /\ \A i \in (size + 1)..r.w.size : r.w.tokens[i].memo = <<>>
                /\ IF LexFails(World, lx)
                   THEN r.ret = IntRet(-1) /\ r.w.mark = mark /\ r.out = pres
                   ELSE LET chain == Chain(r.w, mark)
                        IN  /\ IF HasEntry(chain, type)
                               THEN /\ r.ret = IntRet(1)
                                    /\ r.w.mark = HeadEntry(chain, type).mark
                                    /\ r.out = HeadEntry(chain, type).node
                               ELSE /\ r.ret = IntRet(0)
                                    /\ r.w.mark = mark
                                    /\ r.out = pres
                            /\ \A lx2 \in LexResults :
                                  LET again == is_memoized(Rewound(r.w, mark), type, pres, lx2)
                                  IN  /\ again.ret = r.ret
                                      /\ again.out = r.out
                                      /\ again.w = r.w

\* is_memoized has just taken a hit: the mark moved from the position to the
\* end stored for it and out holds the stored node
C4_Witness ==
    /\ call.op = "is_memoized"
    /\ call.ret = IntRet(1)
    /\ hist[<<call.a[1], call.a[2]>>].set
    /\ mark = hist[<<call.a[1], call.a[2]>>].end
    /\ mark > call.a[1]
    /\ call.out = hist[<<call.a[1], call.a[2]>>].node
    /\ call.out # NULL

\* C5: once insert_memo has been executed for position p < fill and rule r,
\* every is_memoized called with mark = p for r returns 1, whatever calls were
\* made in between (memo writes for other rules and positions, fills, growth
\* of the buffer), also when the memoized node is NULL.
C5_InsertThenHit ==
    pc = "rule" =>
        \A p \in Positions, r \in RuleIds :
            hist[<<p, r>>].set =>
                /\ p < fill
                /\ \A pres \in NodeIds, lx \in LexResults :
                      is_memoized(Rewound(World, p), r, pres, lx).ret = IntRet(1)

\* is_memoized has just reported a memoized failure (a NULL node) as a hit, at
\* position 0, after the buffer had grown and a second token was stored
C5_Witness ==
    /\ call.op = "is_memoized"
    /\ call.ret = IntRet(1)
    /\ call.out = NULL
    /\ call.a[1] = 0
    /\ hist[<<0, call.a[2]>>].set
    /\ size = 2
    /\ fill = 2

\* C6 as the claim states it: the chain of every token holds at most one
\* entry per rule id
C6_AtMostOneEntryPerRule ==
    \A i \in 1..size, r \in RuleIds : Count(tokens[i].memo, r) <= 1

\* C6, amended: the chain of a token holds more than one entry of a rule id
\* only if insert_memo was called for that token and rule id while the chain
\* already held an entry of it; update_memo never adds a second one.
C6_OneEntryUnlessReinserted ==
    \A p \in Positions, r \in RuleIds :
        (p < size /\ Count(tokens[p + 1].memo, r) > 1) => hist[<<p, r>>].dup

\* update_memo has just been called for a rule id that its chain, of two
\* entries, holds once
C6_Witness ==
    /\ call.op = "update_memo"
    /\ call.ret = IntRet(0)
    /\ Len(Chain(World, call.a[1])) = 2
    /\ Count(Chain(World, call.a[1]), call.a[2]) = 1

\* C7: when insert_memo has been executed twice for position p and rule r, a
\* later is_memoized at mark p for r returns the node and sets the mark to
\* the end position most recently written for (p, r) - those of the second
\* insert_memo, unless update_memo overwrote them since - and not those of
\* the entry inserted first.
C7_LatestInsertWins ==
    pc = "rule" =>
        \A p \in Positions, r \in RuleIds :
            (p < fill /\ Count(tokens[p + 1].memo, r) >= 2) =>
                /\ hist[<<p, r>>].set
                /\ \A pres \in NodeIds, lx \in LexResults :
                      LET q == is_memoized(Rewound(World, p), r, pres, lx)
                      IN  /\ q.ret = IntRet(1)
                          /\ q.out = hist[<<p, r>>].node
                          /\ q.w.mark = hist[<<p, r>>].end

\* is_memoized has just returned the later of two different entries that
\* insert_memo put in one chain for one rule
C7_Witness ==
    /\ call.op = "is_memoized"
    /\ call.ret = IntRet(1)
    /\ LET chain == Chain(World, call.a[1])
       IN  /\ Len(chain) = 2
           /\ chain[1].type = call.a[2]
           /\ chain[2].type = call.a[2]
           /\ chain[1].node # chain[2].node
           /\ chain[1].mark # chain[2].mark
           /\ call.out = chain[1].node
           /\ mark = chain[1].mark
           /\ hist[<<call.a[1], call.a[2]>>].dup

\* C8: update_memo(at, r, node) on a chain that holds r changes the entry of r
\* nearest the head to (node, current mark) and nothing else: the length, the
\* order and the other entries stay; on a chain without r it prepends one
\* entry (r, node, current mark) - when PyArena_Malloc fails it changes
\* nothing and returns -1.  After a call that returned 0, is_memoized at mark
\* at for r returns node and sets the mark to the mark current at the update.
C8_UpdateMemo ==
    pc = "rule" =>
        \A a \in MemoArgs(World), ok \in BOOLEAN :
            LET at == a[1]
                r == a[2]
                node == a[3]
                u == update_memo(World, at, r, node, ok)
                old == Chain(World, at)
                new == Chain(u.w, at)
                entry == [type |-> r, node |-> node, mark |-> mark]
                k0 == CHOOSE k \in 1..Len(old) :
                          old[k].type = r /\ \A j \in 1..(k - 1) : old[j].type # r
            IN  /\ u.w.mark = mark /\ u.w.fill = fill /\ u.w.size = size
                /\ \A i \in 1..size :
                      i # at + 1 => u.w.tokens[i] = tokens[i]
                /\ u.w.tokens[at + 1] = [tokens[at + 1] EXCEPT !.memo = new]
                /\ IF HasEntry(old, r)
                   THEN /\ u.ret = IntRet(0)
                        /\ Len(new) = Len(old)
                        /\ \A k \in 1..Len(old) :
                              new[k] = IF k = k0 THEN entry ELSE old[k]
                   ELSE IF ok
                        THEN u.ret = IntRet(0) /\ new = <<entry>> \o old
                        ELSE u.ret = IntRet(-1) /\ new = old
                /\ u.ret = IntRet(0) =>
                      \A pres \in NodeIds, lx \in LexResults :
                          LET q == is_memoized(Rewound(u.w, at), r, pres, lx)
                          IN  /\ q.ret = IntRet(1)
                              /\ q.out = node
                              /\ q.w.mark = mark

\* update_memo has just rewritten in place an entry that is not at the head of
\* its chain: the entry of another rule is still in front of it
C8_Witness ==
    /\ call.op = "update_memo"
    /\ call.ret = IntRet(0)
    /\ LET chain == Chain(World, call.a[1])
       IN  /\ Len(chain) = 2
           /\ chain[1].type # call.a[2]
           /\ chain[2] = [type |-> call.a[2], node |-> call.a[3], mark |-> mark]
           /\ mark > call.a[1]

\* every call a rule can make in the state at hand, as the outcome it has
AllOutcomes ==
    { expect_token(World, type, lx) : type \in ExpectKinds, lx \in LexResults }
    \cup { keyword_token(World, val, lx) : val \in KeywordTexts, lx \in LexResults }
    \cup { is_memoized(World, type, NULL, lx) : type \in RuleIds, lx \in LexResults }
    \cup { lookahead(positive, func, World, lx, TRUE) :
               positive \in {0, 1}, func \in RuleFuncs, lx \in LexResults }
    \cup { lookahead_with_string(1, World, arg, lx) :
               arg \in KeywordTexts, lx \in LexResults }
    \cup { lookahead_with_int(1, World, arg, lx) :
               arg \in ExpectKinds, lx \in LexResults }
    \cup { insert_memo(World, a[1], a[2], a[3], ok) : a \in MemoArgs(World), ok \in BOOLEAN }
    \cup { update_memo(World, a[1], a[2], a[3], ok) : a \in MemoArgs(World), ok \in BOOLEAN }

\* C9: in every state reached from the creation of the parser by calls of
\* expect_token, keyword_token, the lookaheads, is_memoized, insert_memo and
\* update_memo (memo entries written at positions < fill),
\* 0 <= mark <= fill <= size, and every read p->tokens[i] a call makes finds
\* i < fill at the moment of the read.
C9_Bounds ==
    /\ 0 <= mark /\ mark <= fill /\ fill <= size /\ Len(tokens) = size
    /\ pc = "rule" =>
          \A r \in AllOutcomes :
              /\ 0 <= r.w.mark /\ r.w.mark <= r.w.fill /\ r.w.fill <= r.w.size
              /\ \A k \in 1..Len(r.rd) : 0 <= r.rd[k].idx /\ r.rd[k].idx < r.rd[k].fill

\* a memo hit has just moved the mark to fill: the next read of the token at
\* mark has to materialize it first
C9_Witness ==
    /\ call.op = "is_memoized"
    /\ call.ret = IntRet(1)
    /\ mark = fill
    /\ fill = size

ErrorAnswers == {lx \in FillLexResults : lx.type = ERRORTOKEN}

\* C11: when the tokenizer answers with an error token, fill_token returns
\* -1 and fill, size and every token are what they were; with no error
\* pending it records a SyntaxError at the tokenizer's current line, column
\* 0, and with an error pending it leaves that error alone; any further
\* failing calls leave the error of the first alone.
C11_LexerErrorSticky ==
    pc = "fill" =>
        \A lx \in ErrorAnswers :
            LET f == fill_token(World, lx)
            IN  /\ f.rc = -1
                /\ f.w.fill = fill /\ f.w.size = size /\ f.w.mark = mark
                /\ f.w.tokens = tokens
                /\ IF err.exc = "none"
                   THEN /\ f.w.err.exc = "SyntaxError"
                        /\ f.w.err.lineno = lx.lineno
                        /\ f.w.err.col = 0
                   ELSE f.w.err = err
                /\ \A lx2 \in ErrorAnswers, lx3 \in ErrorAnswers :
                      LET g == fill_token(f.w, lx2)
                          h == fill_token(g.w, lx3)
                      IN  /\ g.rc = -1 /\ h.rc = -1
                          /\ g.w = f.w
                          /\ h.w = f.w

\* a second failing fill_token, the tokenizer now on another line, has just
\* left the SyntaxError recorded by the first
C11_Witness ==
    /\ call.op = "fill_token"
    /\ call.ret = IntRet(-1)
    /\ err.exc = "SyntaxError"
    /\ err.col = 0
    /\ err.lineno # call.a[1].lineno
    /\ fill = 1

\* the kind the keyword table gives to a NAME of these bytes
KeywordKind(bytes) ==
    LET n == Len(bytes)
        bucket == keywords[n + 1]
        matches == {k \in 1..Len(bucket) : bucket[k].type # -1 /\ bucket[k].str = bytes}
    IN  IF n >= Len(keywords) THEN NAME
        ELSE IF bucket = <<>> \/ matches = {} THEN NAME
        ELSE bucket[CHOOSE k \in matches : \A j \in matches : k <= j].type

\* C12: the token fill_token stores for a NAME gets the kind of the first
\* entry, in the bucket of the keyword table for its length, whose bytes are
\* the token's; it stays NAME when the length is outside the table, the
\* bucket is absent or no entry matches; a token of any other kind of the
\* tokenizer keeps that kind.
C12_KeywordKind ==
    pc = "fill" =>
        \A lx \in FillLexResults \ ErrorAnswers :
            LET t == fill_token(World, lx).w.tokens[fill + 1]
            IN  /\ t.bytes = lx.bytes
                /\ t.type = IF lx.type = NAME THEN KeywordKind(lx.bytes) ELSE lx.type

\* fill_token has just stored a NAME whose bytes are those of two entries of
\* its bucket, with the kind of the first of them
C12_Witness ==
    /\ call.op = "fill_token"
    /\ call.ret = IntRet(0)
    /\ call.a[1].type = NAME
    /\ call.a[1].bytes = <<"i", "f">>
    /\ tokens[fill].type = 500
    /\ tokens[fill].type # NAME


(***************************************************************************)
(* Claims about run_parser and fstring_compile_expr, checked under         *)
(* SpecRun.                                                                *)
(***************************************************************************)
\* run_parser is past the call of the start rule, which returned NULL
RuleFailed == pc \in {"exit", "done"} /\ run.returned /\ run.res = NULL

\* C13: when the start rule returns NULL with no error pending, run_parser
\* raises a SyntaxError whose message is "error at start before reading any
\* input" if fill = 0 and "invalid syntax" otherwise, at the line and the
\* column of the token fill - 1 (unless the exception cannot be allocated);
\* an error the rule left pending stays as it is; and whenever the parse
\* fails (the rule fails, or it is never called) the result is NULL.
C13_FailureReport ==
    /\ (pc \in {"exit", "done"} /\ (~run.returned \/ run.res = NULL)) => run.result = NULL
    /\ (RuleFailed /\ run.pending # NoErr) => err = run.pending
    /\ (RuleFailed /\ run.pending = NoErr) =>
          \/ err = MemoryError
          \/ /\ err.exc = "SyntaxError"
             /\ err.msg = IF fill = 0 THEN "error at start before reading any input"
                                      ELSE "invalid syntax"
             /\ fill >= 1 =>
                   /\ err.lineno = tokens[fill].lineno
                   /\ err.col = byte_offset_to_character_offset(
                                    ProgramText(tokens[fill].lineno),
                                    tokens[fill].col_offset) + 1

\* the rule consumed "x", found "if" where it wanted something else, and
\* returned NULL: "invalid syntax" at the second character of line 1
C13_Witness ==
    /\ pc = "done"
    /\ RuleFailed
    /\ run.pending = NoErr
    /\ fill = 2
    /\ mark = 1
    /\ tokens[2].bytes = <<"i", "f">>
    /\ err = [exc |-> "SyntaxError", msg |-> "invalid syntax", lineno |-> 1, col |-> 2]
    /\ run.result = NULL


\* a block of memory that was allocated
Allocated(b) == b \in {"live", "freed"}

\* C14: when run_parser has ended, it has ended by returning; the arena, if
\* one was created, was freed exactly once and not while the start rule was
\* running; the parser state, its token array and each of its size slots
\* were freed exactly once; and no invocation of fstring_compile_expr freed
\* the arena.
C14_EverythingFreedOnce ==
    /\ pc # "crashed"
    /\ run.arena = "freed" => pc = "done" /\ run.arena_frees = 1
    /\ pc = "done" =>
          /\ run.arena # "live"
          /\ Allocated(run.p) => run.p = "freed" /\ run.p_frees = 1
          /\ Allocated(run.arr) =>
                run.arr = "freed" /\ run.arr_frees = 1 /\ run.slot_frees = size
    /\ sub.pc # "none" => sub.arena_frees = 0

\* C15: when an invocation of fstring_compile_expr that allocated p2 has
\* returned, p2 was freed once and, if the array p2->tokens was allocated,
\* the array and each of its size slots were freed once.
C15_InnerParserFreed ==
    (sub.pc = "returned" /\ Allocated(sub.p2)) =>
        /\ sub.p2 = "freed" /\ sub.p2_frees = 1
        /\ Allocated(sub.arr2) =>
              sub.arr2 = "freed" /\ sub.arr2_frees = 1 /\ sub.slot_frees = sub.w.size

\* the texts handed to decode_unicode_with_escapes
DecodeTexts ==
    {<<>>} \cup { <<a>> : a \in {"a", "\\", "U+E9", "n"} }
           \cup { <<a, b>> : a \in {"a", "\\", "U+E9", "n"}, b \in {"a", "\\", "U+E9", "n"} }

\* C16: when fstring_compile_expr returns, the buffer str it allocated has
\* been released; and decode_unicode_with_escapes releases the buffer u as
\* many times as it allocated it, whatever it returns.
C16_ScratchBuffersReleased ==
    /\ sub.pc = "returned" => sub.str # "live"
    /\ \A t \in DecodeTexts, env \in DecodeEnvs :
          LET d == decode_unicode_with_escapes(World, t, env)
          IN  d.u_frees = d.u_allocs

\* C17: when the start rule called on p2 returned a module of one statement,
\* fstring_compile_expr returns the value of that statement.
C17_ReturnsStatementValue ==
    (sub.pc = "returned" /\ sub.mod = "module" /\ sub.nbody = 1) => sub.ret = 1


(***************************************************************************)
(* Claims about the literal part of an f-string, checked under SpecLit.    *)
(***************************************************************************)
\* C18: for a body "{{" + x + "}}" scanned at recursion depth 0, x without
\* brace and backslash (and the allocations and the UTF-8 decoding of the
\* literal succeeding), the scan never fails and never looks for an
\* expression; the first turn of the loop yields the literal "{" and resumes
\* after the second '{', the second yields x + "}" and resumes after the
\* second '}', and when the loop is left the accumulated literal is
\* "{" + x + "}", the whole body is consumed and the value returned is 0.
C18_DoubledBracesRoundTrip ==
    \A x \in XTexts :
        (/\ pc = "fstring"
         /\ scan.body = DoubledBody(x)
         /\ scan.recurse_lvl = 0
         /\ scan.env.alloc_ok /\ scan.env.utf8_ok) =>
            /\ scan.pc \in {"loop", "check", "done"}
            /\ (scan.pc = "loop" /\ scan.str > 0) =>
                  /\ scan.result = 1
                  /\ \/ scan.str = 2 /\ scan.last_str = <<"{">>
                     \/ /\ scan.str = Len(scan.body)
                        /\ scan.last_str = <<"{">> \o x \o <<"}">>
            /\ scan.pc \in {"check", "done"} =>
                  /\ scan.last_str = <<"{">> \o x \o <<"}">>
                  /\ scan.str = Len(scan.body)
                  /\ scan.rc = 0
            /\ err = NoErr

\* "{{aé}}", not raw, has been scanned to its end: the literal is "{aé}"
C18_Witness ==
    /\ pc = "fstring"
    /\ scan.pc = "done"
    /\ scan.body = DoubledBody(<<"a", "U+E9">>)
    /\ ~scan.raw
    /\ scan.recurse_lvl = 0
    /\ scan.last_str = <<"{", "a", "U+E9", "}">>
    /\ scan.rc = 0

\* the characters of body at the offsets from .. k-1 are neither braces nor
\* backslashes, and the one at offset k is a '}' that no '}' follows
LoneCloseAt(body, from, k) ==
    /\ k >= from
    /\ k < Len(body)
    /\ \A i \in (from + 1)..k : body[i] \notin {"{", "}", "\\"}
    /\ body[k + 1] = "}"
    /\ ~(k + 1 < Len(body) /\ body[k + 2] = "}")

C20_BracketStack ==
    pc = "fexpr" =>
        LET l == scan.last
            outside == l.quote_char = ""
        IN  /\ scan.nested_depth \in 0..MAXLEVEL
            /\ scan.acc \in -1..(MAXLEVEL - 1)
            /\ (l.ch \in Openers /\ outside /\ l.nested_depth >= MAXLEVEL) =>
                  /\ scan.pc = "error"
                  /\ scan.parenstack = l.parenstack
                  /\ scan.nested_depth = l.nested_depth
                  /\ err.msg = "f-string: too many nested parenthesis" \/ err = MemoryError
            /\ (l.ch \in Openers /\ outside /\ l.nested_depth < MAXLEVEL) =>
                  /\ scan.pc = "scanning"
                  /\ scan.nested_depth = l.nested_depth + 1
                  /\ scan.acc = l.nested_depth
                  /\ scan.parenstack = [l.parenstack EXCEPT ![l.nested_depth + 1] = l.ch]
                  /\ err = NoErr
            /\ (l.ch \in Closers /\ outside /\ l.nested_depth > 0) =>
                  /\ scan.nested_depth = l.nested_depth - 1
                  /\ scan.acc = l.nested_depth - 1
                  /\ scan.parenstack = l.parenstack
                  /\ IF Matches(l.parenstack[l.nested_depth], l.ch)
                     THEN scan.pc = "scanning" /\ err = NoErr
                     ELSE /\ scan.pc = "error"
                          /\ \/ err.msg = "f-string: closing parenthesis '%c' does not match opening parenthesis '%c'"
                             \/ err = MemoryError

\* an opening bracket met with the stack full: the error, nothing pushed
C20_Witness ==
    /\ pc = "fexpr"
    /\ scan.last.ch = "["
    /\ scan.last.quote_char = ""
    /\ scan.last.nested_depth = MAXLEVEL
    /\ scan.nested_depth = MAXLEVEL
    /\ scan.parenstack = [i \in 1..MAXLEVEL |-> "["]
    /\ scan.pc = "error"
    /\ err.msg = "f-string: too many nested parenthesis"


\* the characters of the body before the offset n
Scanned(n) == { scan.body[i] : i \in 1..(IF n < Len(scan.body) THEN n ELSE Len(scan.body)) }

\* C21: after a turn of the loop at a backslash, whatever the depth and
\* whether inside a string or not, the scan has stopped with the error
\* "f-string expression part cannot include a backslash" (the MemoryError of
\* an exception that cannot be allocated); and while the scan goes on, and
\* when fstring_compile_expr is about to be called, no character before *str
\* is a backslash.
C21_BackslashRejected ==
    pc = "fexpr" =>
        /\ scan.last.ch = "\\" =>
              /\ scan.pc = "error"
              /\ \/ err.msg = "f-string expression part cannot include a backslash"
                 \/ err = MemoryError
        /\ scan.pc \in {"scanning", "after", "compile"} => "\\" \notin Scanned(scan.str)

\* a backslash inside a string inside a bracket
C21_Witness ==
    /\ pc = "fexpr"
    /\ scan.body = <<"(", "'", "\\">>
    /\ scan.last.ch = "\\"
    /\ scan.last.quote_char = "'"
    /\ scan.last.nested_depth = 1
    /\ scan.pc = "error"
    /\ err.msg = "f-string expression part cannot include a backslash"

\* C22 as stated: after a turn of the loop at a '#', whatever the depth and
\* whether inside a string or not, the scan has stopped with the error
\* "f-string expression part cannot include '#'".
C22_HashRejectedAnywhere ==
    (pc = "fexpr" /\ scan.last.ch = "#") =>
        /\ scan.pc = "error"
        /\ err.msg = "f-string expression part cannot include '#'" \/ err = MemoryError

\* C22, amended: after a turn of the loop at a '#' outside a string, whatever
\* the depth, the scan has stopped with that error; after a turn at a '#'
\* inside a string the scan goes on, past the '#', with no error.
C22_HashRejectedOutsideStrings ==
    (pc = "fexpr" /\ scan.last.ch = "#") =>
        IF scan.last.quote_char = ""
        THEN /\ scan.pc = "error"
             /\ err.msg = "f-string expression part cannot include '#'" \/ err = MemoryError
        ELSE /\ scan.pc = "scanning"
             /\ scan.quote_char = scan.last.quote_char
             /\ err = NoErr

\* a '#' inside a bracket, outside a string
C22_Witness ==
    /\ pc = "fexpr"
    /\ scan.body = <<"(", "#">>
    /\ scan.last.ch = "#"
    /\ scan.last.nested_depth = 1
    /\ scan.last.quote_char = ""
    /\ scan.pc = "error"
    /\ err.msg = "f-string expression part cannot include '#'"

\* C23: the loop is not left at a '<' or a '>', and when fstring_compile_expr
\* is about to be called the character at *str, the end of the expression, is
\* one of '}', '!', ':' and '='.
C23_StopsAtTerminatorsOnly ==
    pc = "fexpr" =>
        /\ (scan.pc = "after" /\ scan.str < Len(scan.body)) =>
              scan.body[scan.str + 1] \notin {"<", ">"}
        /\ scan.pc = "compile" => scan.body[scan.str + 1] \in {"}", "!", ":", "="}


(***************************************************************************)
(* Claims about the FstringParser, checked under SpecAsm.                  *)
(***************************************************************************)
\* the texts of a sequence of string arrivals, joined
RECURSIVE Joined(_)
Joined(a) == IF a = <<>> THEN <<>> ELSE Head(a).v \o Joined(Tail(a))

\* the arrivals with every maximal run of strings joined into one text and
\* the runs whose text is empty left out; strings are compared by text
RECURSIVE Merged(_, _)
Merged(a, run_text) ==
    IF a = <<>> THEN IF run_text = <<>> THEN <<>> ELSE << [k |-> "Constant", v |-> run_text] >>
    ELSE IF Head(a).k = "Constant" THEN Merged(Tail(a), run_text \o Head(a).v)
    ELSE (IF run_text = <<>> THEN <<>> ELSE << [k |-> "Constant", v |-> run_text] >>)
         \o << [k |-> Head(a).k, v |-> Head(a).v] >> \o Merged(Tail(a), <<>>)

\* a list of nodes without the kinds
Plain(l) == [i \in 1..Len(l) |-> [k |-> l[i].k, v |-> l[i].v]]

\* C26: the list of nodes never holds a Constant with an empty text nor two
\* Constants next to each other; and FstringParser_Finish, when it returns a
\* node, returns a Constant with the joined text of the strings when fmode
\* was never set, and otherwise a JoinedStr whose list is the arrivals in
\* their order, every maximal run of strings merged into one Constant and
\* empty runs left out.
C26_AssemblerMerges ==
    pc = "asm" =>
        LET l == scan.state.expr_list
        IN  /\ \A i \in 1..Len(l) : l[i].k = "Constant" => l[i].v # <<>>
            /\ \A i \in 1..(Len(l) - 1) : ~(l[i].k = "Constant" /\ l[i + 1].k = "Constant")
            /\ scan.pc = "finished" =>
                  IF scan.state.fmode = 0
                  THEN scan.node.k = "Constant" /\ scan.node.v = Joined(scan.arrivals)
                  ELSE /\ scan.node.k = "JoinedStr"
                       /\ Plain(scan.node.v) = Merged(scan.arrivals, <<>>)
                       /\ \A i \in 1..(Len(scan.node.v) - 1) :
                             ~(scan.node.v[i].k = "Constant" /\ scan.node.v[i + 1].k = "Constant")
                       /\ \A i \in 1..Len(scan.node.v) : scan.node.v[i].v # <<>>

\* "a", "", "bc", an expression, then finish: one Constant "abc" and the
\* expression
C26_Witness ==
    /\ pc = "asm"
    /\ scan.pc = "finished"
    /\ Len(scan.arrivals) = 4
    /\ scan.arrivals[1].v = <<"a">>
    /\ scan.arrivals[2].v = <<>>
    /\ scan.arrivals[3].v = <<"b", "c">>
    /\ scan.arrivals[4].k = "FormattedValue"
    /\ scan.node.k = "JoinedStr"
    /\ Len(scan.node.v) = 2
    /\ scan.node.v[1].v = <<"a", "b", "c">>


(***************************************************************************)
(* Claims about a whole f-string, checked under SpecField.  scan.entered   *)
(* is the level of the last fstring_find_expr entered, scan.last what the  *)
(* last field that was closed consisted of.                                *)
(***************************************************************************)
TooDeeply == "f-string: expressions nested too deeply"

\* C24 as the specification states it: an expression is rejected as nested
\* too deeply exactly when its level is greater than 2, the levels 0, 1 and
\* 2 are scanned.
C24_RejectedAboveTwo ==
    (pc = "field" /\ call.op = "fstring_find_expr") =>
        ((scan.pc = "failed" /\ scan.raised = TooDeeply) <=> scan.entered > 2)

\* C24, amended: fstring_find_expr at the level d fails with "f-string:
\* expressions nested too deeply" exactly when d >= 2; at the levels 0 and 1
\* the expression is scanned, and any failure there has another message.
C24_RejectedFromTwo ==
    (pc = "field" /\ call.op = "fstring_find_expr") =>
        /\ (scan.pc = "failed" /\ scan.raised = TooDeeply) <=> scan.entered >= 2
        /\ (scan.pc = "failed" /\ scan.raised = TooDeeply /\ err.exc = "SyntaxError")
              => err.msg = TooDeeply
        /\ scan.entered \in 0..2

\* the expression of the format specification of a format specification is
\* rejected
C24_Witness ==
    /\ pc = "field"
    /\ call.op = "fstring_find_expr"
    /\ scan.entered = 2
    /\ scan.pc = "failed"
    /\ err.msg = TooDeeply
    /\ scan.body = <<"{", "a", ":", "{", "b", ":", "{", "c", "}", "}", "}">>

\* C25: when a field with '=' is closed, the text of the '=' form is the
\* text from the start of the expression through the '=' and the white space
\* after it; it is added to the pending string, after the literal, and the
\* Constant before the FormattedValue ends with it; the conversion is 'r'
\* exactly when there is neither a conversion character nor a format
\* specification, a conversion character is kept, and with a format
\* specification alone there is no conversion.  In every field that is closed
\* the parts after the expression are, in this order and with nothing else
\* between them, '=' and white space, '!' and a character, ':' and a format
\* specification, '}'.
C25_DebugForm ==
    (pc = "field" /\ call.op = "FormattedValue" /\ scan.pc = "loop") =>
        LET L == scan.last
            l == Top.state.expr_list
            a == IF L.eq_at >= 0 THEN SkipSpace(scan.body, L.eq_at + 1) ELSE L.expr_end
            b == IF L.bang_at >= 0 THEN a + 2 ELSE a
        IN  /\ L.closed
            /\ Len(l) >= 1
            /\ l[Len(l)].k = "FormattedValue"
            /\ l[Len(l)].conversion = L.conversion
            /\ l[Len(l)].v = SubSeq(scan.body, L.expr_start + 1, L.expr_end)
            /\ L.eq_at >= 0 =>
                  /\ L.eq_at = L.expr_end
                  /\ scan.body[L.eq_at + 1] = "="
                  /\ L.expr_text.v = SubSeq(scan.body, L.expr_start + 1, a)
                  /\ Len(l) >= 2
                  /\ l[Len(l) - 1].k = "Constant"
                  /\ l[Len(l) - 1].v = L.before.v \o L.literal.v \o L.expr_text.v
                  /\ (L.conversion = "r" /\ L.explicit = NoConversion)
                        <=> (L.bang_at < 0 /\ ~L.has_spec)
                  /\ (L.bang_at < 0 /\ L.has_spec) => L.conversion = NoConversion
            /\ L.eq_at < 0 => L.expr_text.null /\ L.conversion = L.explicit
            /\ L.bang_at >= 0 =>
                  /\ L.bang_at = a
                  /\ scan.body[a + 1] = "!"
                  /\ L.conversion = scan.body[a + 2]
                  /\ L.conversion \in {"s", "r", "a"}
            /\ L.bang_at < 0 => L.explicit = NoConversion
            /\ L.colon_at >= 0 => L.colon_at = b /\ scan.body[b + 1] = ":" /\ L.has_spec
            /\ L.colon_at < 0 => L.close_at = b /\ ~L.has_spec
            /\ scan.body[L.close_at + 1] = "}"
            /\ scan.str = L.close_at + 1

\* u{a =  }b: the text "a =  " is added to the literal "u" and the
\* conversion is 'r'
C25_Witness ==
    /\ pc = "field"
    /\ call.op = "FormattedValue"
    /\ scan.pc = "loop"
    /\ scan.last.eq_at >= 0
    /\ scan.last.conversion = "r"
    /\ scan.last.literal.v = <<"u">>
    /\ Top.state.expr_list[1].v = <<"u", "a", " ", "=", " ", " ">>


(***************************************************************************)
(* Claims about string_token and parsestr, checked under SpecStr.          *)
(***************************************************************************)
\* the letters of a text before its first quote
RECURSIVE PrefixOf(_)
PrefixOf(text) ==
    IF text = <<>> \/ Head(text) \in {"'", "\""} THEN <<>>
    ELSE <<Head(text)>> \o PrefixOf(Tail(text))

\* a text has one of the letters in its prefix
Has(text, letters) == \E i \in 1..Len(PrefixOf(text)) : PrefixOf(text)[i] \in letters

\* the text between the quotes, one quote or three at each end
BodyOf(text) ==
    LET i == Len(PrefixOf(text))
        q == IF Len(text) >= i + 6 /\ text[i + 2] = text[i + 1] /\ text[i + 3] = text[i + 1]
             THEN 3 ELSE 1
    IN  SubSeq(text, i + q + 1, Len(text) - q)

\* C27 as the specification states it: b with u, or b with f, is refused
\* with an internal error and no value; any other prefix is accepted with
\* bytesmode, rawmode and the f-string mode set for the letters it has
\* (rawmode is also set for a string without a backslash, which is decoded
\* the same way).
C27_PrefixDecoding ==
    (pc \in {"string", "field"} /\ call.op = "parsestr") =>
        LET text == tokens[1].bytes
            b == Has(text, {"b", "B"})
            u == Has(text, {"u", "U"})
            r == Has(text, {"r", "R"})
            f == Has(text, {"f", "F"})
        IN  IF (b /\ u) \/ (b /\ f)
            THEN pc = "string" /\ scan.pc = "null" /\ err = BadInternalCall
                 /\ scan.r.result.null
            ELSE /\ err # BadInternalCall
                 /\ f <=> pc = "field"
                 /\ pc = "field" => (scan.raw <=> r)
                 /\ pc = "string" =>
                       /\ scan.r.bytesmode = (IF b THEN 1 ELSE 0)
                       /\ scan.r.rawmode = 1
                             <=> (r \/ \A i \in 1..Len(text) : text[i] # "\\")

\* the Constants of a node
ConstantsOf(node) ==
    IF node.k = "Constant" THEN {node}
    ELSE IF node.k = "JoinedStr"
    THEN { node.v[i] : i \in { j \in 1..Len(node.v) : node.v[j].k = "Constant" } }
    ELSE {}

\* C28 as the specification states it: a Constant made from a STRING token
\* has the kind "u" exactly when the prefix of the token has a 'u' or a 'U'.
C28_KindIffPrefix ==
    ((pc = "string" /\ scan.pc = "constant") \/ (pc = "field" /\ scan.pc = "finished")) =>
        \A c \in ConstantsOf(scan.node) :
            c.kind = "u" <=> Has(tokens[1].bytes, {"u", "U"})

\* the character of the first escape of a text that the decoding does not
\* know, "" without one; a backslash before a character outside ASCII is
\* turned into an escaped backslash by the first pass
RECURSIVE FirstInvalid(_)
FirstInvalid(b) ==
    IF Len(b) < 2 THEN ""
    ELSE IF Head(b) # "\\" THEN FirstInvalid(Tail(b))
    ELSE IF b[2] \in {"\\", "n"} THEN FirstInvalid(Tail(Tail(b)))
    ELSE IF b[2] \in NonAscii THEN FirstInvalid(Tail(b))
    ELSE b[2]

\* C29: the decoding of a string that is not raw calls
\* warn_invalid_escape_sequence at most once, with the character of the first
\* invalid escape; when the warning is issued the decoding returns the value;
\* when the warning comes back as an exception parsestr returns -1 without a
\* value and the error pending is the SyntaxError "invalid escape sequence";
\* the DeprecationWarning is never the error pending.
C29_InvalidEscape ==
    (pc = "string" /\ call.op = "parsestr") =>
        LET r == scan.r
            body == BodyOf(tokens[1].bytes)
        IN  /\ Len(r.warned) <= 1
            /\ err.exc # "DeprecationWarning"
            /\ r.warned # <<>> =>
                  /\ r.rawmode = 0
                  /\ r.warned = << FirstInvalid(body) >>
                  /\ scan.env.warn = "ok" =>
                        scan.pc = "decoded" /\ r.rc = 0 /\ ~r.result.null
                  /\ scan.env.warn = "error" =>
                        /\ scan.pc = "null" /\ r.rc = -1 /\ r.result.null
                        /\ err.exc = "SyntaxError"
                        /\ err.msg = "invalid escape sequence"
            /\ (scan.pc = "decoded" /\ r.rawmode = 0 /\ FirstInvalid(body) # "")
                  => r.warned = << FirstInvalid(body) >>

\* 'a\q\z' with warnings as errors: one warning, for 'q', and the SyntaxError
C29_Witness ==
    /\ pc = "string"
    /\ call.op = "parsestr"
    /\ scan.pc = "null"
    /\ scan.r.warned = <<"q">>
    /\ scan.env.warn = "error"
    /\ err.exc = "SyntaxError"
    /\ BodyOf(tokens[1].bytes) = <<"a", "\\", "q", "\\", "z">>


(***************************************************************************)
(* The claim about the first pass of decode_unicode_with_escapes, checked  *)
(* under SpecPre.                                                          *)
(***************************************************************************)
\* the bytes the first pass writes for a text, counted as the specification
\* counts them: 10 for a character outside ASCII, 6 for a backslash before
\* such a character or at the end, 1 for any other byte (a backslash before
\* another byte of ASCII and that byte are 2)
RECURSIVE Written(_)
Written(s) ==
    IF s = <<>> THEN 0
    ELSE IF Head(s) \in PreScalars THEN 10 + Written(Tail(s))
    ELSE IF Head(s) = "\\" /\ (Len(s) = 1 \/ s[2] \in PreScalars) THEN 6 + Written(Tail(s))
    ELSE IF Head(s) = "\\" THEN 2 + Written(Tail(Tail(s)))
    ELSE 1 + Written(Tail(s))

\* C30: at every step of the first pass the number of bytes written is at
\* most the size of the buffer, 6 times the number of bytes of the text, so
\* the assertion p - buf <= size holds where it is evaluated; at the end the
\* number of bytes written is the count of the specification.
C30_PrePassBound ==
    pc = "prepass" =>
        /\ scan.size = 6 * ByteLen(scan.s)
        /\ scan.p <= scan.size
        /\ scan.p = Written(SubSeq(scan.s, 1, scan.i))
        /\ scan.pc = "done" => scan.p = Written(scan.s) /\ scan.len = scan.p

\* a letter, a backslash before a character of two bytes and a backslash at
\* the end: 1 + 6 + 10 + 6 bytes written, 30 bytes of buffer
C30_Witness ==
    /\ pc = "prepass"
    /\ scan.pc = "done"
    /\ scan.s = <<"a", "\\", "U+E9", "\\">>
    /\ scan.p = 23
    /\ scan.size = 30

(***************************************************************************)
(* The claims about set_expr_context and construct_assign_target, checked  *)
(* under SpecCtx.                                                          *)
(***************************************************************************)
\* an expression without the addresses of its nodes
RECURSIVE Shape(_)
Shape(e) ==
    [kind |-> e.kind, ctx |-> e.ctx, id |-> e.id, pos |-> e.pos,
     null |-> e.elts.null,
     elts |-> [i \in 1 .. Len(e.elts.v) |-> Shape(e.elts.v[i])],
     value |-> [i \in 1 .. Len(e.value) |-> Shape(e.value[i])]]

\* new is old with the context ctx as the claim describes it: a new node with
\* ctx for a name, a tuple, a list, a subscript, an attribute and a starred;
\* the elements of a tuple or list and the value of a starred rewritten the
\* same way; the value of a subscript or attribute the very node it was; any
\* other kind the very node it was
RECURSIVE Rewritten(_, _, _)
Rewritten(old, new, ctx) ==
    IF old.kind \in {"Name", "Tuple", "List", "Subscript", "Attribute", "Starred"}
    THEN /\ new.kind = old.kind
         /\ new.ctx = ctx
         /\ new.at >= ArenaBase
         /\ new.id = old.id
         /\ new.pos = old.pos
         /\ new.elts.null = old.elts.null
         /\ Len(new.elts.v) = Len(old.elts.v)
         /\ \A i \in 1 .. Len(old.elts.v) : Rewritten(old.elts.v[i], new.elts.v[i], ctx)
         /\ Len(new.value) = Len(old.value)
         /\ old.kind = "Starred" => Rewritten(old.value[1], new.value[1], ctx)
         /\ old.kind \in {"Subscript", "Attribute"} => new.value = old.value
    ELSE new = old

\* the calls made so far all had the memory they asked for
AllOk == \A i \in 1 .. Len(scan.applied) : scan.applied[i].ok

\* C31: set_expr_context gives a name, tuple, list, subscript, attribute or
\* starred the new context, recursively through the elements of tuples and
\* lists and the value of a starred, only at the top node of a subscript or
\* attribute, and returns a node of any other kind as it is; applied with A
\* and then with B it gives a node structurally equal to the one it gives
\* applied with B alone.
C31_ContextReplaced ==
    (pc = "helper" /\ scan.pc = "set" /\ AllOk) =>
        /\ Rewritten(scan.prev, scan.cur, scan.applied[Len(scan.applied)].ctx)
        /\ Len(scan.applied) = 2 =>
              Shape(scan.cur)
                  = Shape(set_expr_context(ArenaBase, scan.e, scan.applied[2].ctx, TRUE).node)

\* a tuple of a name and a subscript, set to Store and then to Del: the name
\* and the subscript are new nodes with Del, the value of the subscript is
\* the node it was
C31_Witness ==
    /\ pc = "helper"
    /\ scan.pc = "set"
    /\ scan.applied = <<[ctx |-> "Store", ok |-> TRUE], [ctx |-> "Del", ok |-> TRUE]>>
    /\ scan.e.kind = "Tuple"
    /\ Len(scan.e.elts.v) = 2
    /\ scan.e.elts.v[1].kind = "Name"
    /\ scan.e.elts.v[2].kind = "Subscript"
    /\ scan.cur.ctx = "Del"
    /\ scan.cur.elts.v[1].ctx = "Del"
    /\ scan.cur.elts.v[2].ctx = "Del"
    /\ scan.cur.elts.v[2].at >= ArenaBase
    /\ scan.cur.elts.v[2].value = scan.e.elts.v[2].value
    /\ scan.prev.elts.v[1].ctx = "Store"

\* C32: construct_assign_target sets a SyntaxError "Only single target (not
\* list) can be annotated" for a list and "Only single target (not tuple)
\* can be annotated" for a tuple whose number of elements is not 1, returns
\* the element of a tuple of one element, returns a node of any other kind
\* as it is with no error set, and returns NULL for NULL.
C32_AssignTarget ==
    (pc = "helper" /\ scan.pc = "target" /\ AllOk) =>
        LET node == scan.prev
        IN  IF node.kind = "NULL" THEN scan.cur = NullExpr /\ err = NoErr
            ELSE IF node.kind = "List"
            THEN /\ err.exc = "SyntaxError"
                 /\ err.msg = "Only single target (not list) can be annotated"
            ELSE IF node.kind = "Tuple" /\ Len(node.elts.v) # 1
            THEN /\ err.exc = "SyntaxError"
                 /\ err.msg = "Only single target (not tuple) can be annotated"
            ELSE IF node.kind = "Tuple"
            THEN scan.cur = node.elts.v[1] /\ err = NoErr
            ELSE scan.cur = node /\ err = NoErr

\* a tuple of two elements is rejected
C32_Witness ==
    /\ pc = "helper"
    /\ scan.pc = "target"
    /\ AllOk
    /\ scan.prev.kind = "Tuple"
    /\ Len(scan.prev.elts.v) = 2
    /\ err.exc = "SyntaxError"
    /\ scan.cur.kind = "Name"

(***************************************************************************)
(* The claim about make_arguments, checked under SpecArgs.                 *)
(***************************************************************************)
\* an absent sequence treated as empty
Elems(seq) == IF seq.null THEN <<>> ELSE seq.v
\* names(s) and defaults(s) of the specification's table
NamesOf(seq) == [i \in 1 .. Len(Elems(seq)) |-> Elems(seq)[i].arg]
DefaultsOf(seq) == [i \in 1 .. Len(Elems(seq)) |-> Elems(seq)[i].value]

\* C33: make_arguments gives the fields of the specification's table:
\* posonlyargs is slash_without, or slash_with.plain ++ names(slash_with.wd),
\* or empty; posargs is plain ++ names(with_default); posdefaults is
\* defaults(slash_with.wd) ++ defaults(with_default), absent parts being
\* empty; vararg, the keyword-only names and defaults and kwarg come from
\* star_etc; and there are no more positional defaults than positional
\* parameters and as many keyword-only defaults as keyword-only parameters.
C33_ArgumentsTable ==
    (pc = "arguments" /\ scan.pc = "made" /\ scan.ok) =>
        LET g == scan.given
            r == scan.result
        IN  /\ ~r.null
            /\ r.posonlyargs.v =
                  IF ~g.slash_without_default.null THEN g.slash_without_default.v
                  ELSE IF ~g.slash_with_default.null
                  THEN Elems(g.slash_with_default.plain_names)
                           \o NamesOf(g.slash_with_default.names_with_defaults)
                  ELSE <<>>
            /\ r.args.v = Elems(g.plain_names) \o NamesOf(g.names_with_default)
            /\ r.defaults.v =
                  (IF g.slash_with_default.null THEN <<>>
                   ELSE DefaultsOf(g.slash_with_default.names_with_defaults))
                      \o DefaultsOf(g.names_with_default)
            /\ r.vararg = (IF g.star_etc.null THEN 0 ELSE g.star_etc.vararg)
            /\ r.kwarg = (IF g.star_etc.null THEN 0 ELSE g.star_etc.kwarg)
            /\ r.kwonlyargs.v = (IF g.star_etc.null THEN <<>> ELSE NamesOf(g.star_etc.kwonlyargs))
            /\ r.kw_defaults.v =
                  (IF g.star_etc.null THEN <<>> ELSE DefaultsOf(g.star_etc.kwonlyargs))
            /\ Len(r.defaults.v) <= Len(r.posonlyargs.v) + Len(r.args.v)
            /\ Len(r.kw_defaults.v) = Len(r.kwonlyargs.v)

\* def f(a, b=1, /, c, d=2, *args, e, f=3, **kw): the example of the
\* specification
C33_Witness ==
    /\ pc = "arguments"
    /\ scan.pc = "made"
    /\ scan.ok
    /\ scan.given.slash_without_default.null
    /\ scan.result.posonlyargs.v = <<11, 21>>
    /\ scan.result.args.v = <<31, 41>>
    /\ scan.result.defaults.v = <<121, 141>>
    /\ scan.result.vararg = 51
    /\ scan.result.kwonlyargs.v = <<61, 62>>
    /\ scan.result.kw_defaults.v = <<0, 162>>
    /\ scan.result.kwarg = 71

(***************************************************************************)
(* The claim about get_last_nonnwhitespace_token, checked under SpecLast.  *)
(***************************************************************************)
\* a kind the function skips
Skipped(type) == type = ENDMARKER \/ (type >= NEWLINE /\ type <= DEDENT)

\* the indices below the mark of tokens of a kind that is not skipped
Qualifying == { i \in 0 .. (mark - 1) : ~Skipped(tokens[i + 1].type) }

\* C34: get_last_nonnwhitespace_token returns the token of the greatest index
\* below the mark whose kind is neither ENDMARKER nor in NEWLINE..DEDENT,
\* never a token of a skipped kind, and NULL when no token below the mark
\* qualifies.
C34_LastNonWhitespace ==
    (pc = "last" /\ call.op = "get_last_nonnwhitespace_token") =>
        IF Qualifying = {} THEN call.ret = NullRet
        ELSE /\ call.ret.k = "tok"
             /\ call.ret.v \in Qualifying
             /\ \A i \in Qualifying : i <= call.ret.v

\* C34 as far as the code goes: the token of the greatest qualifying index
\* when there is one, and NULL when the mark is 0
C34_LastWhenAny ==
    (pc = "last" /\ call.op = "get_last_nonnwhitespace_token") =>
        /\ Qualifying # {} =>
              /\ call.ret.k = "tok"
              /\ call.ret.v \in Qualifying
              /\ \A i \in Qualifying : i <= call.ret.v
        /\ mark = 0 => call.ret = NullRet

\* only tokens of skipped kinds lie below the mark, and the first token of
\* the buffer is returned
C34_SkippedReturned ==
    /\ pc = "last"
    /\ call.op = "get_last_nonnwhitespace_token"
    /\ mark > 0
    /\ Qualifying = {}
    /\ call.ret = TokRet(0)

(***************************************************************************)
(* The claim about the location of the errors of string_token, checked     *)
(* under SpecStr.                                                          *)
(***************************************************************************)
\* the column raise_syntax_error reports for a token
ColumnOf(t) == byte_offset_to_character_offset(ProgramText(t.lineno), t.col_offset) + 1

\* C35: a SyntaxError raised while the STRING token is decoded (an invalid
\* escape promoted to an error, a bytes literal with a character outside
\* ASCII, an error of the f-string) has the line and column of the STRING
\* token, the token at mark - 1, also when the buffer holds tokens after it.
C35_ErrorAtStringToken ==
    (pc \in {"string", "field"} /\ err.exc = "SyntaxError") =>
        /\ err.lineno = tokens[mark].lineno
        /\ err.col = ColumnOf(tokens[mark])

\* C35 as far as the code goes: the error has the line and column of the last
\* token of the buffer, the token at fill - 1
C35_ErrorAtLastFilled ==
    (pc \in {"string", "field"} /\ err.exc = "SyntaxError") =>
        /\ err.lineno = tokens[fill].lineno
        /\ err.col = ColumnOf(tokens[fill])

\* the bytes literal with a character outside ASCII was rejected, and the
\* error has the line of the token after the STRING token
C35_ErrorAtLaterToken ==
    /\ pc = "string"
    /\ err.exc = "SyntaxError"
    /\ err.msg = "bytes can only contain ASCII literal characters."
    /\ mark = 1
    /\ fill = 2
    /\ tokens[1].lineno = 1
    /\ err.lineno = 2

(***************************************************************************)
(* The claim about string_token for an f-string that fails, checked under  *)
(* SpecField.                                                              *)
(***************************************************************************)
\* C36: when FstringParser_ConcatFstring fails for the f-string of a STRING
\* token, string_token returns NULL with the error pending, never a Constant
\* or JoinedStr made of what the accumulator held.
C36_NullOnFailure ==
    (pc = "field" /\ scan.pc = "finished_failed") =>
        /\ scan.node.k = "NULL"
        /\ err # NoErr

\* the f-string {a}} : the expression a is in the accumulator when the
\* single '}' is rejected, and string_token returns the JoinedStr of it with
\* the SyntaxError pending
C36_NodeWithErrorPending ==
    /\ pc = "field"
    /\ scan.pc = "finished_failed"
    /\ scan.body = <<"{", "a", "}", "}">>
    /\ scan.node.k = "JoinedStr"
    /\ Len(scan.node.v) = 1
    /\ err.exc = "SyntaxError"
    /\ err.msg = "f-string: single '}' is not allowed"

(***************************************************************************)
(* The claim about the dummy name of CONSTRUCTOR, checked under SpecCache. *)
(***************************************************************************)
\* C37: over any sequence of calls of run_parser in one process, every node
\* CONSTRUCTOR returns during a parse is allocated in the arena of that
\* parse, and that arena is live when the node is returned; a node cached
\* during an earlier parse, whose arena has been freed, is never returned.
C37_DummyInLiveArena ==
    (pc = "process" /\ run.pc = "rule") =>
        \A i \in 1 .. Len(run.returned) :
            run.returned[i] # NullDummy =>
                /\ run.returned[i].arena = run.arena
                /\ run.returned[i].arena \notin run.freed

\* the second parse is given the node of the first, whose arena is freed
C37_StaleDummy ==
    /\ pc = "process"
    /\ run.pc = "rule"
    /\ run.parses = 2
    /\ run.arena = 2
    /\ run.freed = {1}
    /\ Len(run.returned) = 1
    /\ run.returned[1].arena = 1

\* C37 as far as the code goes: within the first parse that makes the node,
\* the node is in the arena of the parse
C37_FirstParseOnly ==
    (pc = "process" /\ run.pc = "rule" /\ run.freed = {}) =>
        \A i \in 1 .. Len(run.returned) :
            run.returned[i] # NullDummy => run.returned[i].arena = run.arena

(***************************************************************************)
(* The claim about the assertion of fstring_find_literal, checked under    *)
(* SpecLit.                                                                *)
(***************************************************************************)
\* C39: whenever fstring_find_literal leaves its loop with the status 0, the
\* cursor is at the end of the body or on a '{' or '}': the assertion
\* s == end || *s == '{' || *s == '}' holds for every body, raw or not.
C39_AssertionHolds ==
    (pc = "fstring" /\ call.op = "fstring_find_literal") =>
        /\ scan.pc # "aborted"
        /\ (scan.result = 0 /\ scan.pc # "failed") =>
              \/ scan.str >= Len(scan.body)
              \/ scan.body[scan.str + 1] \in {"{", "}"}

\* the body \Nab, not raw: the scan stops after the a that follows \N, on
\* the b, where the assertion is false
C39_AssertionFails ==
    /\ pc = "fstring"
    /\ call.op = "fstring_find_literal"
    /\ scan.body = <<"\\", "N", "a", "b">>
    /\ ~scan.raw
    /\ scan.pc = "aborted"
    /\ scan.str = 3

\* C39 as far as the code goes: in raw mode, and for a \N{ whose closing
\* '}' is missing, the cursor is at the end or on a brace
C39_RawOrUnclosedName ==
    (/\ pc = "fstring"
     /\ call.op = "fstring_find_literal"
     /\ scan.raw \/ scan.body = <<"\\", "N", "{", "a">>) =>
        /\ scan.pc # "aborted"
        /\ (scan.result = 0 /\ scan.pc # "failed") =>
              \/ scan.str >= Len(scan.body)
              \/ scan.body[scan.str + 1] \in {"{", "}"}

(***************************************************************************)
(* The claim about the cursor when FstringParser_ConcatFstring returns 0,  *)
(* checked under SpecField.                                                *)
(***************************************************************************)
\* C40: whenever the segmentation returns success, at recursion depth 0 the
\* cursor is at the end of the body, no byte left, and at a depth of 1 or
\* more the cursor is before the end and on the '}' that closes the
\* replacement field.
C40_ConsumedOnSuccess ==
    (pc = "field" /\ scan.pc = "returned") =>
        IF Top.recurse_lvl = 0
        THEN scan.str = Len(scan.body)
        ELSE /\ scan.str < Len(scan.body)
             /\ scan.body[scan.str + 1] = "}"

\* the format specification of {a:{b}} has been segmented: the cursor is on
\* the last '}'
C40_Witness ==
    /\ pc = "field"
    /\ scan.pc = "returned"
    /\ scan.body = <<"{", "a", ":", "{", "b", "}", "}">>
    /\ Top.recurse_lvl = 1
    /\ scan.str = 6
    /\ Len(Top.state.expr_list) = 1


(***************************************************************************)
(* C38: the segmentation of an f-string ends for every body.  A turn of    *)
(* the loop that goes on (after a doubled brace, or with an expression     *)
(* found) leaves the cursor further on than it was, the cursor never goes  *)
(* back and never passes the end of the body, the levels of format         *)
(* specifications stay within the limit of two, and the segmentation       *)
(* always comes to success or to an error.                                 *)
(***************************************************************************)
Segmenting == pc = "field" /\ scan.pc \in {"loop", "expr", "close", "returned"}

CursorStep ==
    Segmenting =>
        /\ scan'.str >= scan.str
        /\ scan'.str <= Len(scan.body)
        /\ (scan.pc # "returned" /\ scan'.pc \in {"loop", "close"}
               => scan'.str > scan.str)

WithinLimits ==
    pc = "field" =>
        /\ scan.str <= Len(scan.body)
        /\ Len(scan.frames) <= 3
        /\ \A i \in 1..Len(scan.frames) : scan.frames[i].recurse_lvl = i - 1

C38_Terminates ==
    /\ []WithinLimits
    /\ [][CursorStep]_vars
    /\ <>(scan.pc \in {"finished", "finished_failed"})

\* what holds of the segmentation: the cursor and the levels as stated, and
\* an end that is success, an error, or the stop at the false assertion of
\* fstring_find_literal
C38_TerminatesOrStops ==
    /\ []WithinLimits
    /\ [][CursorStep]_vars
    /\ <>(scan.pc \in {"finished", "finished_failed", "aborted"})

\* a segmentation that stopped at the assertion after a turn with a field
C38_StoppedAfterField ==
    /\ pc = "field"
    /\ scan.pc = "aborted"
    /\ scan.body = << "{", "a", "}", "\\", "N", "}", "a" >>
    /\ scan.last.closed
    /\ scan.str > 3

====
